---- MODULE Spec2Model ----
(***************************************************************************)
(* PeakForm: the weekly analysis pipeline (peakform/agent.py), the         *)
(* MacroFactor workbook loader (peakform/parsers/macrofactor.py) and the   *)
(* column discovery helper shared with peakform/charts.py.                 *)
(*                                                                         *)
(* Calendar dates are proleptic Gregorian ordinals (date.toordinal());     *)
(* a pandas Timestamp at midnight is the ordinal of its day.  Cell values  *)
(* and strings are tagged records, so that parsing is computed and not     *)
(* assumed.                                                                *)
(***************************************************************************)
EXTENDS Integers, Sequences, FiniteSets, TLC

VARIABLES
    pc,           \* position of run_full / of the loader session
    week,         \* run_full's week argument: None or a string
    today,        \* date.today() at the time of the call
    week_start,   \* resolved window start (ordinal) or NoDate
    week_end,     \* resolved window end (ordinal) or NoDate
    error,        \* the exception that left the call, "none" when there is none
    wb,           \* the workbook: sheet name -> sheet or Absent
    sheets,       \* MacroFactorData._sheets: sheet name -> parsed table or Unloaded
    mf_loaded,    \* macrofactor.load has returned
    garmin,       \* the activity file's rows
    garmin_loaded,\* garmin.load has returned
    warnings,     \* coverage warnings of the run
    invoked,      \* analyzers called so far, in call order
    targets,      \* last result of get_current_targets, or NoTargets
    cols,         \* the columns get_current_targets located, or NoCols
    calls,        \* the analyzer calls made so far, each with its arguments
    report,       \* the report run_full returns, or NoReport
    first,        \* what the previous run_full on the same files gave, or NoRun
    arg,          \* the argument of the function under study
    result,       \* its result, or NoResult
    store,        \* the persistence backend: key -> content, None when absent
    loaded,       \* what the last load_session / load_all returned, or NoLoad
    rec,          \* st.session_state.rec, the InterviewState
    shown,        \* the error the last user action displayed, or None
    requests,     \* the LLM requests the last user action issued, in order
    agent,        \* the PeakFormAgent: its system prompt and its _history
    messages      \* st.session_state.messages, the chat panel's list

vars == <<pc, week, today, week_start, week_end, error, wb, sheets, mf_loaded,
          garmin, garmin_loaded, warnings, invoked, targets, cols,
          calls, report, first, arg, result,
          store, loaded, rec, shown, requests, agent, messages>>

\* the function under study and its argument
fn == <<arg, result>>

\* what only run_full and run_analysis write
trace == <<calls, report, first>>

\* what only persistence, the interview tab and the chat panel write
app == <<store, loaded, rec, shown, requests, agent, messages>>

-----------------------------------------------------------------------------
(* Values                                                                  *)

None == [t |-> "None"]

NaN == [t |-> "nan"]

Num(n) == [t |-> "num", n |-> n]

DateV(o) == [t |-> "date", ord |-> o]

DateTimeV(o, s) == [t |-> "datetime", ord |-> o, secs |-> s]

\* A string, by its shape: "iso" is YYYY-MM-DD with a = year, b = month,
\* c = day; "mdy" is M/D/Y with a = month, b = day, c = year written with
\* ydigits digits; "empty" has no characters but its padding; "other" is any
\* other text.  tail: characters follow the date; pad: surrounded by blanks.
Str(shape, a, b, c, ydigits, tail, pad) ==
    [t |-> "str", shape |-> shape, a |-> a, b |-> b, c |-> c,
     ydigits |-> ydigits, tail |-> tail, pad |-> pad]

NoDate == 0

-----------------------------------------------------------------------------
(* The backend, the interview and the chat before anything has used them   *)

\* the storage keys of persistence.py
StoreKeys == {"session", "result", "rec", "messages", "mf_upload", "garmin_upload"}

EmptyStore == [k \in StoreKeys |-> None]

NoLoad == [t |-> "NoLoad"]

\* InterviewState(phase = p) with its defaults: no targets entered, no texts
InterviewState(p) ==
    [phase |-> p, inputs |-> 0, analysis_text |-> None, proposal_text |-> None,
     use_new_meals |-> FALSE, week_template_md |-> None]

\* no agent has been built
NoAgent == [system |-> None, history |-> <<>>]

AppAtRest ==
    /\ store = EmptyStore
    /\ loaded = NoLoad
    /\ rec = InterviewState(0)
    /\ shown = None
    /\ requests = <<>>
    /\ agent = NoAgent
    /\ messages = <<>>

-----------------------------------------------------------------------------
(* datetime.date arithmetic                                                *)

IsLeap(y) == (y % 4 = 0) /\ ((y % 100 # 0) \/ (y % 400 = 0))

DaysInMonth(y, m) ==
    IF m = 2 THEN (IF IsLeap(y) THEN 29 ELSE 28)
    ELSE IF m \in {4, 6, 9, 11} THEN 30 ELSE 31

DaysBeforeYear(y) ==
    (y - 1) * 365 + ((y - 1) \div 4) - ((y - 1) \div 100) + ((y - 1) \div 400)

RECURSIVE DaysBeforeMonth(_, _)
DaysBeforeMonth(y, m) ==
    IF m <= 1 THEN 0 ELSE DaysBeforeMonth(y, m - 1) + DaysInMonth(y, m - 1)

\* date(year, month, day) raises ValueError outside these ranges
ValidYmd(y, m, d) ==
    /\ y >= 1 /\ y <= 9999
    /\ m >= 1 /\ m <= 12
    /\ d >= 1 /\ d <= DaysInMonth(y, m)

Ymd2Ord(y, m, d) == DaysBeforeYear(y) + DaysBeforeMonth(y, m) + d

\* date.weekday(): Monday is 0
Weekday(o) == (o + 6) % 7

-----------------------------------------------------------------------------
(* Week boundary helpers (agent.py)                                        *)

Bounds(s, e) == [ok |-> TRUE, start |-> s, end |-> e]

Raise(e) == [ok |-> FALSE, err |-> e]

\* a week counted from Sunday
WeekBoundsForDate_SundayStart(target) ==
    LET monday == target - ((Weekday(target) + 1) % 7)
        sunday == monday + 6
    IN  Bounds(monday, sunday)

WeekBoundsForDate(target) ==
    LET monday == target - Weekday(target)
        sunday == monday + 6
    IN  Bounds(monday, sunday)

CurrentWeekBounds(now) ==
    LET monday == now - Weekday(now)
        sunday == monday + 6
    IN  Bounds(monday, sunday)

\* Python truthiness of the week argument: None and "" are falsy
Falsy(s) == s.t = "None" \/ (s.t = "str" /\ s.shape = "empty" /\ ~s.pad)

\* date.fromisoformat on the whole string: no blanks, nothing after the date
FromIsoFormat(s) ==
    IF s.shape = "iso" /\ ~s.pad /\ ~s.tail /\ ValidYmd(s.a, s.b, s.c)
    THEN [ok |-> TRUE, ord |-> Ymd2Ord(s.a, s.b, s.c)]
    ELSE Raise("ValueError")

\* the ValueError swallowed, the current week used instead
ParseWeekArg_Fallback(week_str, now) ==
    IF Falsy(week_str) THEN CurrentWeekBounds(now)
    ELSE LET p == FromIsoFormat(week_str)
         IN  IF p.ok THEN WeekBoundsForDate(p.ord)
             ELSE CurrentWeekBounds(now)

\* the offset to Monday taken from the clock's weekday
ParseWeekArg_TodayWeekday(week_str, now) ==
    IF Falsy(week_str) THEN CurrentWeekBounds(now)
    ELSE LET p == FromIsoFormat(week_str)
         IN  IF p.ok THEN Bounds(p.ord - Weekday(now), p.ord - Weekday(now) + 6)
             ELSE Raise("InvalidWeek")

ParseWeekArg(week_str, now) ==
    IF Falsy(week_str) THEN CurrentWeekBounds(now)
    ELSE LET p == FromIsoFormat(week_str)
         IN  IF p.ok THEN WeekBoundsForDate(p.ord)
             ELSE Raise("InvalidWeek")

-----------------------------------------------------------------------------
(* Text: column names and keywords are sequences of characters             *)

UpperChars == <<"A", "B", "C", "D", "E", "F", "G", "H", "I", "J", "K", "L", "M", "N", "O", "P", "Q", "R", "S", "T", "U", "V", "W", "X", "Y", "Z">>

LowerChars == <<"a", "b", "c", "d", "e", "f", "g", "h", "i", "j", "k", "l", "m", "n", "o", "p", "q", "r", "s", "t", "u", "v", "w", "x", "y", "z">>

DigitChars == <<"0", "1", "2", "3", "4", "5", "6", "7", "8", "9">>

LowerOf ==
    [c \in {UpperChars[i] : i \in 1..Len(UpperChars)} |->
        LowerChars[CHOOSE i \in 1..Len(UpperChars) : UpperChars[i] = c]]

LowerChar(c) == IF c \in DOMAIN LowerOf THEN LowerOf[c] ELSE c

\* str.lower()
Lower(s) == [i \in 1..Len(s) |-> LowerChar(s[i])]

\* the `in` operator on strings: kw occurs in s as a substring
Contains(s, kw) ==
    \E i \in 0..(Len(s) - Len(kw)) : SubSeq(s, i + 1, i + Len(kw)) = kw

\* str.replace(old, new) for a one-character old
RECURSIVE Replace(_, _, _)
Replace(s, old, new) ==
    IF s = <<>> THEN <<>>
    ELSE (IF Head(s) = old THEN new ELSE <<Head(s)>>) \o Replace(Tail(s), old, new)

\* A free-text cell: a header or a cell that is not a number
Text(chars) == [t |-> "text", s |-> chars]

\* A cell holding the decimal text of a number
NumStr(n) == [t |-> "numstr", n |-> n]

KwCalorie == <<"c", "a", "l", "o", "r", "i", "e">>

KwKcal == <<"k", "c", "a", "l">>

KwEnergy == <<"e", "n", "e", "r", "g", "y">>

KwProtein == <<"p", "r", "o", "t", "e", "i", "n">>

KwCarb == <<"c", "a", "r", "b">>

KwFat == <<"f", "a", "t">>

KwExpenditure == <<"e", "x", "p", "e", "n", "d", "i", "t", "u", "r", "e">>

NameDate == <<"d", "a", "t", "e">>

PrefixCol == <<"c", "o", "l", "_">>

-----------------------------------------------------------------------------
(* Date normalization (parsers/macrofactor.py)                             *)

SHEET_CALORIES_MACROS == "Calories & Macros"

SHEET_NUTRITION_PROGRAM == "Nutrition Program Settings"

SheetNames == {SHEET_CALORIES_MACROS, SHEET_NUTRITION_PROGRAM}

\* value.strip()
Strip(s) == [s EXCEPT !.pad = FALSE]

\* value[:10]: ten characters are exactly the date of a YYYY-MM-DD string
Slice10(s) == IF s.shape = "iso" THEN [s EXCEPT !.tail = FALSE] ELSE s

\* _MDYYYY_RE.match: one or two digits, "/", one or two digits, "/", four
\* digits, and nothing before or after
MdyMatch(s) ==
    /\ s.shape = "mdy" /\ ~s.pad /\ ~s.tail
    /\ s.a >= 0 /\ s.a <= 99
    /\ s.b >= 0 /\ s.b <= 99
    /\ s.ydigits = 4 /\ s.c >= 0 /\ s.c <= 9999

Normalized(d) == [ok |-> TRUE, date |-> d]

\* without the ISO fallback
NormalizeDate_NoIso(value) ==
    IF value.t = "None" THEN Normalized(NoDate)
    ELSE IF value.t = "datetime" THEN Normalized(value.ord)
    ELSE IF value.t = "date" THEN Normalized(value.ord)
    ELSE IF value.t = "str" THEN
        IF MdyMatch(Strip(value))
        THEN IF ValidYmd(value.c, value.a, value.b)
             THEN Normalized(Ymd2Ord(value.c, value.a, value.b))
             ELSE Raise("ValueError")
        ELSE Normalized(NoDate)
    ELSE Normalized(NoDate)

\* NoDate stands for a None result
NormalizeDate(value) ==
    IF value.t = "None" THEN Normalized(NoDate)
    ELSE IF value.t = "datetime" THEN Normalized(value.ord)
    ELSE IF value.t = "date" THEN Normalized(value.ord)
    ELSE IF value.t = "str" THEN
        IF MdyMatch(Strip(value))
        THEN \* date(year, month, day), whose ValueError is not caught
             IF ValidYmd(value.c, value.a, value.b)
             THEN Normalized(Ymd2Ord(value.c, value.a, value.b))
             ELSE Raise("ValueError")
        ELSE LET p == FromIsoFormat(Slice10(Strip(value)))
             IN  IF p.ok THEN Normalized(p.ord) ELSE Normalized(NoDate)
    ELSE Normalized(NoDate)

\* pd.to_datetime: nanosecond Timestamps span 1677-09-22 .. 2262-04-11
TimestampOk(o) ==
    o >= Ymd2Ord(1677, 9, 22) /\ o <= Ymd2Ord(2262, 4, 11)

-----------------------------------------------------------------------------
(* Generic sheet loader                                                    *)

Absent == [t |-> "absent"]

Sheet(data) == [t |-> "sheet", data |-> data]

EmptyDf == [columns |-> <<>>, rows |-> <<>>]

\* DataFrame.empty
DfEmpty(df) == Len(df.columns) = 0 \/ Len(df.rows) = 0

Loaded(df) == [ok |-> TRUE, df |-> df]

\* str(h) if h is not None else f"col_{i}", i counted from 0
HeaderName(h, i) ==
    IF h.t = "None" THEN PrefixCol \o <<DigitChars[i + 1]>> ELSE h.s

\* (r + [None] * n)[:n]
PadRow(r, n) == [i \in 1..n |-> IF i <= Len(r) THEN r[i] ELSE None]

MinDate(rows, S) == CHOOSE d \in {rows[i].date : i \in S} :
                        \A i \in S : d <= rows[i].date

\* the rows of q whose positions are in S, in the order of q
RECURSIVE Pick(_, _)
Pick(q, S) ==
    IF q = <<>> THEN <<>>
    ELSE Pick(SubSeq(q, 1, Len(q) - 1), S)
         \o (IF Len(q) \in S THEN <<q[Len(q)]>> ELSE <<>>)

\* the rows left in sheet order
SortValues_SourceOrder(rows, S) == {Pick(rows, S)}

\* sort_values("date"): every ascending arrangement, rows of equal date in
\* any order (the default sort kind is not stable)
RECURSIVE SortValues(_, _)
SortValues(rows, S) ==
    IF S = {} THEN {<<>>}
    ELSE LET m == MinDate(rows, S)
         IN  UNION {{<<rows[i]>> \o rest : rest \in SortValues(rows, S \ {i})} :
                    i \in {j \in S : rows[j].date = m}}

\* _load_sheet_as_df from `data = list(ws.values)` on
LoadRows(data) ==
    IF data = <<>> THEN {Loaded(EmptyDf)}
    ELSE LET n == Len(data[1])
             headers == [i \in 1..n |-> HeaderName(data[1][i], i - 1)]
             rows == [k \in 1..(Len(data) - 1) |-> PadRow(data[k + 1], n)]
             norm == [k \in 1..Len(rows) |-> NormalizeDate(rows[k][1])]
         IN
         IF \E k \in 1..Len(rows) : ~norm[k].ok THEN {Raise("ValueError")}
         ELSE LET keep == {k \in 1..Len(rows) : norm[k].date # NoDate}
                  recs == [k \in 1..Len(rows) |->
                             [date |-> norm[k].date, vals |-> Tail(rows[k])]]
              IN
              IF \E k \in keep : ~TimestampOk(norm[k].date)
              THEN {Raise("OutOfBoundsDatetime")}
              ELSE {Loaded([columns |-> <<NameDate>> \o Tail(headers),
                            rows |-> r]) : r \in SortValues(recs, keep)}

\* wb[sheet_name] without the membership test
LoadSheetAsDf_NoAbsentCheck(book, sheet_name) ==
    IF book[sheet_name].t = "absent" THEN {Raise("KeyError")}
    ELSE LoadRows(book[sheet_name].data)

\* The set of results _load_sheet_as_df can give
LoadSheetAsDf(book, sheet_name) ==
    IF book[sheet_name].t = "absent" THEN {Loaded(EmptyDf)}
    ELSE LoadRows(book[sheet_name].data)

-----------------------------------------------------------------------------
(* Per-sheet parsers                                                       *)

\* pd.to_numeric(errors="coerce") on one cell
ToNumeric(v) ==
    IF v.t = "num" THEN v
    ELSE IF v.t = "numstr" THEN Num(v.n)
    ELSE NaN

\* c.lower().replace(" ", "_").replace("(", "").replace(")", "")
SnakeCase(c) ==
    Replace(Replace(Replace(Lower(c), " ", <<"_">>), "(", <<>>), ")", <<>>)

NumericDf(df) ==
    [columns |-> [i \in 1..Len(df.columns) |->
                    IF df.columns[i] # NameDate THEN SnakeCase(df.columns[i])
                    ELSE NameDate],
     rows |-> [k \in 1..Len(df.rows) |->
                 [df.rows[k] EXCEPT !.vals =
                    [j \in 1..Len(df.rows[k].vals) |-> ToNumeric(df.rows[k].vals[j])]]]]

ParseSheet(book, sheet_name) ==
    {IF ~r.ok THEN r ELSE IF DfEmpty(r.df) THEN r ELSE Loaded(NumericDf(r.df)) :
        r \in LoadSheetAsDf(book, sheet_name)}

ParseCaloriesMacros(book) == ParseSheet(book, SHEET_CALORIES_MACROS)

ParseNutritionProgram(book) == ParseSheet(book, SHEET_NUTRITION_PROGRAM)

-----------------------------------------------------------------------------
(* MacroFactorData                                                         *)

Unloaded == [t |-> "unloaded"]

Parser(sheet_name, book) ==
    IF sheet_name = SHEET_CALORIES_MACROS THEN ParseCaloriesMacros(book)
    ELSE ParseNutritionProgram(book)

\* MacroFactorData._get: the results of reading one sheet property, each
\* with the cache it leaves
Get(cache, book, sheet_name) ==
    IF cache[sheet_name] # Unloaded
    THEN {[ok |-> TRUE, df |-> cache[sheet_name], cache |-> cache]}
    ELSE {IF r.ok
          THEN [ok |-> TRUE, df |-> r.df,
                cache |-> [cache EXCEPT ![sheet_name] = r.df]]
          ELSE [ok |-> FALSE, err |-> r.err, cache |-> cache] :
             r \in Parser(sheet_name, book)}

-----------------------------------------------------------------------------
(* Column discovery and current targets                                    *)

NoCol == <<>>

RECURSIVE FirstContaining(_, _)
\* for col in df.columns: if c.lower() in col.lower(): return col
FirstContaining(columns, c) ==
    IF columns = <<>> THEN NoCol
    ELSE IF Contains(Lower(Head(columns)), Lower(c)) THEN Head(columns)
    ELSE FirstContaining(Tail(columns), c)

RECURSIVE FindCol_ColumnMajor(_, _)
\* the loops nested the other way round
FindCol_ColumnMajor(columns, candidates) ==
    IF columns = <<>> THEN NoCol
    ELSE IF \E i \in 1..Len(candidates) :
               Contains(Lower(Head(columns)), Lower(candidates[i]))
         THEN Head(columns)
         ELSE FindCol_ColumnMajor(Tail(columns), candidates)

RECURSIVE FindCol(_, _)
\* get_current_targets._find_col and charts._col: keywords in the order
\* given, and for each keyword the columns in column order
FindCol(columns, candidates) ==
    IF candidates = <<>> THEN NoCol
    ELSE LET col == FirstContaining(columns, Head(candidates))
         IN  IF col # NoCol THEN col ELSE FindCol(columns, Tail(candidates))

Fallback(name) == [t |-> "fallback", name |-> name]

defaults ==
    [calories |-> Fallback("FALLBACK_CALORIE_TARGET"),
     protein_g |-> Fallback("FALLBACK_PROTEIN_TARGET_G"),
     carbs_g |-> Fallback("FALLBACK_CARBS_TARGET_G"),
     fat_g |-> Fallback("FALLBACK_FAT_TARGET_G"),
     expenditure_kcal |-> Fallback("FALLBACK_EXPENDITURE_KCAL")]

TargetKeys == {"calories", "protein_g", "carbs_g", "fat_g", "expenditure_kcal"}

\* The keyword list of each target
Candidates ==
    [calories |-> <<KwCalorie, KwKcal, KwEnergy>>,
     protein_g |-> <<KwProtein>>,
     carbs_g |-> <<KwCarb>>,
     fat_g |-> <<KwFat>>,
     expenditure_kcal |-> <<KwExpenditure>>]

NoCols == [k \in TargetKeys |-> NoCol]

NoTargets == [t |-> "unset"]

\* _to_float on a cell of a parsed table
ToFloat(v) == IF v.t = "None" THEN None ELSE v

\* `if v:` for None or a float: None and 0.0 are falsy, NaN is truthy
Truthy(v) == IF v.t = "None" THEN FALSE ELSE IF v.t = "num" THEN v.n # 0 ELSE TRUE

ColIndex(columns, col) == CHOOSE i \in 1..Len(columns) : columns[i] = col

\* row[col] for a column other than "date"
Cell(df, row, col) == row.vals[ColIndex(df.columns, col) - 1]

TargetsOf(df) ==
    IF DfEmpty(df) THEN [targets |-> defaults, cols |-> NoCols]
    ELSE LET last == df.rows[Len(df.rows)]
             found == [k \in TargetKeys |-> FindCol(df.columns, Candidates[k])]
         IN  [targets |->
                [k \in TargetKeys |->
                    IF found[k] # NoCol /\ Truthy(ToFloat(Cell(df, last, found[k])))
                    THEN ToFloat(Cell(df, last, found[k]))
                    ELSE defaults[k]],
              cols |-> found]

\* The results get_current_targets can give, each with the cache it leaves
GetCurrentTargetsOutcomes(cache, book) ==
    {IF r.ok
     THEN LET res == TargetsOf(r.df)
          IN  [ok |-> TRUE, cache |-> r.cache,
               targets |-> res.targets, cols |-> res.cols]
     ELSE r : r \in Get(cache, book, SHEET_NUTRITION_PROGRAM)}

-----------------------------------------------------------------------------
(* Activity table                                                          *)

Activity(d, type, mi) == [date |-> d, type |-> type, distance_mi |-> mi]

\* GarminData.runs_in_window: the runs whose day lies in [week_start, week_end]
RunsInWindow(g, ws, we) ==
    SelectSeq(g, LAMBDA a : a.type = "run" /\ a.date >= ws /\ a.date <= we)

-----------------------------------------------------------------------------
(* Coverage validation (agent.py)                                          *)

LOGGED_DAYS_MIN == 5

GAP_DAYS_MAX == 2

CALORIE_SPIKE_KCAL == 3000

LONG_RUN_MI == 15

Warn(kind, n, d) == [kind |-> kind, n |-> n, date |-> d]

InWindow(rows, ws, we) == SelectSeq(rows, LAMBDA r : r.date >= ws /\ r.date <= we)

\* the days between the first and the last date
MaxGap_Span(D) ==
    IF D = {} THEN 0
    ELSE (CHOOSE m \in D : \A x \in D : x <= m) - (CHOOSE m \in D : \A x \in D : m <= x)

\* the largest difference between neighbours of sorted(set(dates))
MaxGap(D) ==
    LET step == {d - (CHOOSE e \in D : e < d /\ \A f \in D : f < d => f <= e) :
                    d \in {x \in D : \E y \in D : y < x}}
    IN  IF step = {} THEN 0
        ELSE CHOOSE m \in step : \A x \in step : x <= m

\* next(c for c in columns if "calorie" in c.lower() or "kcal" in c.lower())
RECURSIVE CalorieColumn(_)
CalorieColumn(columns) ==
    IF columns = <<>> THEN NoCol
    ELSE IF Contains(Lower(Head(columns)), KwCalorie)
            \/ Contains(Lower(Head(columns)), KwKcal)
         THEN Head(columns)
         ELSE CalorieColumn(Tail(columns))

GreaterThan(v, n) == v.t = "num" /\ v.n > n

WarningsFor(cm_df, g, ws, we) ==
    LET week_cm == InWindow(cm_df.rows, ws, we)
        logged_days == Len(week_cm)
        w_logged ==
            IF ~DfEmpty(cm_df)
            THEN (IF logged_days < LOGGED_DAYS_MIN
                  THEN <<Warn("low_logged_days", logged_days, NoDate)>> ELSE <<>>)
            ELSE <<Warn("cm_empty", 0, NoDate)>>
        runs == RunsInWindow(g, ws, we)
        max_gap == MaxGap({runs[i].date : i \in 1..Len(runs)})
        w_gap ==
            IF runs # <<>>
            THEN (IF max_gap > GAP_DAYS_MAX
                  THEN <<Warn("run_gap", max_gap, NoDate)>> ELSE <<>>)
            ELSE <<Warn("no_runs", 0, NoDate)>>
        cal_col == CalorieColumn(cm_df.columns)
        spikes == IF cal_col = NoCol THEN <<>>
                  ELSE SelectSeq(week_cm,
                         LAMBDA r : GreaterThan(Cell(cm_df, r, cal_col), CALORIE_SPIKE_KCAL))
        long_runs == SelectSeq(runs, LAMBDA a : a.distance_mi > LONG_RUN_MI)
        w_anomaly ==
            IF ~DfEmpty(cm_df) /\ runs # <<>>
            THEN [i \in 1..Len(spikes) |->
                    Warn("calorie_spike", Cell(cm_df, spikes[i], cal_col).n, spikes[i].date)]
                 \o [i \in 1..Len(long_runs) |->
                    Warn("long_run", long_runs[i].distance_mi, long_runs[i].date)]
            ELSE <<>>
    IN  w_logged \o w_gap \o w_anomaly

\* the validator keeping its window filter in the table it read
ValidateDataCoverage_TrimsTable(cache, book, g, ws, we) ==
    {IF r.ok
     THEN [ok |-> TRUE,
           cache |-> [r.cache EXCEPT ![SHEET_CALORIES_MACROS] =
                         [r.df EXCEPT !.rows = InWindow(r.df.rows, ws, we)]],
           warnings |-> WarningsFor(r.df, g, ws, we)]
     ELSE r : r \in Get(cache, book, SHEET_CALORIES_MACROS)}

\* The results _validate_data_coverage can give, each with the cache it leaves
ValidateDataCoverage(cache, book, g, ws, we) ==
    {IF r.ok
     THEN [ok |-> TRUE, cache |-> r.cache, warnings |-> WarningsFor(r.df, g, ws, we)]
     ELSE r : r \in Get(cache, book, SHEET_CALORIES_MACROS)}

-----------------------------------------------------------------------------
(* run_full (agent.py), one action per call it makes                       *)

AnalyzerOrder_NutritionFirst ==
    <<"nutrition", "running", "strength", "body_comp", "signals">>

AnalyzerOrder == <<"running", "strength", "nutrition", "body_comp", "signals">>

NoResult == [t |-> "NoResult"]

NoReport == [t |-> "NoReport"]

NoRun == [t |-> "NoRun"]

\* the MacroFactorData object handed to an analyzer: the workbook and its cache
MfData(book, cache) == [wb |-> book, sheets |-> cache]

\* a call: who made it, what it called, with which arguments
Call(by, name, args) == [by |-> by, fn |-> name, args |-> args]

\* The value the caller `by` holds for what `name` returned.  The analyzers are
\* functions of their arguments, so the value is named by the call that made it.
ResultOf(cs, by, name) ==
    IF \E i \in 1..Len(cs) : cs[i].by = by /\ cs[i].fn = name
    THEN [t |-> "result",
          of |-> cs[CHOOSE i \in 1..Len(cs) : cs[i].by = by /\ cs[i].fn = name]]
    ELSE NoResult

\* result.path, as in running_analysis.current.total_miles
Field(r, path) ==
    IF r = NoResult THEN NoResult ELSE [t |-> "field", of |-> r, path |-> path]

\* the arguments run_full passes to each analyzer and to signals.detect
AnalyzerArgs(name, g, mf, ws, we, cs) ==
    CASE name = "running" ->
            [garmin_data |-> g, week_start |-> ws, week_end |-> we]
      [] name = "strength" ->
            [mf_data |-> mf, week_start |-> ws, week_end |-> we]
      [] name = "nutrition" ->
            [mf_data |-> mf, week_start |-> ws, week_end |-> we,
             weekly_mileage |->
                Field(ResultOf(cs, "run_full", "running"), <<"current", "total_miles">>)]
      [] name = "body_comp" ->
            [mf_data |-> mf, week_start |-> ws, week_end |-> we,
             avg_daily_deficit |->
                Field(ResultOf(cs, "run_full", "nutrition"), <<"avg_daily_deficit">>)]
      [] name = "signals" ->
            [running |-> ResultOf(cs, "run_full", "running"),
             strength |-> ResultOf(cs, "run_full", "strength"),
             nutrition |-> ResultOf(cs, "run_full", "nutrition"),
             body_comp |-> ResultOf(cs, "run_full", "body_comp")]

\* formatter.build(running=..., strength=..., nutrition=..., body_comp=..., signals=...)
BuildArgs(cs) ==
    [running |-> ResultOf(cs, "run_full", "running"),
     strength |-> ResultOf(cs, "run_full", "strength"),
     nutrition |-> ResultOf(cs, "run_full", "nutrition"),
     body_comp |-> ResultOf(cs, "run_full", "body_comp"),
     signals |-> ResultOf(cs, "run_full", "signals")]

\* the report as a list of parts: the warning block, when there is one, then
\* what formatter.build returned
ReportMd(coverage_warnings, report_md) ==
    IF coverage_warnings # <<>>
    THEN <<[warn_block |-> coverage_warnings], report_md>>
    ELSE <<report_md>>

\* week_start, week_end = _parse_week_arg(week)
RunParseWeek ==
    /\ pc = "start"
    /\ LET r == ParseWeekArg(week, today) IN
       IF r.ok
       THEN /\ week_start' = r.start
            /\ week_end' = r.end
            /\ pc' = "load_mf"
            /\ error' = error
       ELSE /\ error' = r.err
            /\ pc' = "raised"
            /\ UNCHANGED <<week_start, week_end>>
    /\ UNCHANGED <<week, today, wb, sheets, mf_loaded, garmin, garmin_loaded,
                   warnings, invoked, targets, cols>>
    /\ UNCHANGED <<trace, fn, app>>

\* mf_data = macrofactor.load(mf_filepath): opens the workbook, parses no sheet
RunLoadMF ==
    /\ pc = "load_mf"
    /\ mf_loaded' = TRUE
    /\ sheets' = [n \in SheetNames |-> Unloaded]
    /\ pc' = "load_garmin"
    /\ UNCHANGED <<week, today, week_start, week_end, error, wb, garmin,
                   garmin_loaded, warnings, invoked, targets, cols>>
    /\ UNCHANGED <<trace, fn, app>>

\* garmin_data = garmin.load(garmin_filepath)
RunLoadGarmin ==
    /\ pc = "load_garmin"
    /\ garmin_loaded' = TRUE
    /\ pc' = "validate"
    /\ UNCHANGED <<week, today, week_start, week_end, error, wb, sheets,
                   mf_loaded, garmin, warnings, invoked, targets, cols>>
    /\ UNCHANGED <<trace, fn, app>>

\* coverage_warnings = _validate_data_coverage(...)
RunValidate ==
    /\ pc = "validate"
    /\ \E r \in ValidateDataCoverage(sheets, wb, garmin, week_start, week_end) :
        /\ sheets' = r.cache
        /\ IF r.ok
           THEN warnings' = r.warnings /\ pc' = "analyze" /\ error' = error
           ELSE warnings' = warnings /\ pc' = "raised" /\ error' = r.err
    /\ UNCHANGED <<week, today, week_start, week_end, wb, mf_loaded, garmin,
                   garmin_loaded, invoked, targets, cols>>
    /\ UNCHANGED <<trace, fn, app>>

\* running.analyze, strength.analyze, nutrition.analyze, body_comp.analyze,
\* signals.detect, in that order, each with the arguments run_full gives it
RunAnalyzer ==
    /\ pc = "analyze"
    /\ Len(invoked) < Len(AnalyzerOrder)
    /\ LET name == AnalyzerOrder[Len(invoked) + 1] IN
        /\ invoked' = Append(invoked, name)
        /\ calls' = Append(calls,
                           Call("run_full", name,
                                AnalyzerArgs(name, garmin, MfData(wb, sheets),
                                             week_start, week_end, calls)))
    /\ UNCHANGED <<pc, week, today, week_start, week_end, error, wb, sheets,
                   mf_loaded, garmin, garmin_loaded, warnings, targets, cols>>
    /\ UNCHANGED <<report, first, fn, app>>

\* formatter.build, the warnings prepended, and the return
RunReport ==
    /\ pc = "analyze"
    /\ Len(invoked) = Len(AnalyzerOrder)
    /\ report' = ReportMd(warnings, Call("run_full", "formatter.build", BuildArgs(calls)))
    /\ pc' = "done"
    /\ UNCHANGED <<week, today, week_start, week_end, error, wb, sheets,
                   mf_loaded, garmin, garmin_loaded, warnings, invoked, targets, cols>>
    /\ UNCHANGED <<calls, first, fn, app>>

NextRun ==
    \/ RunParseWeek
    \/ RunLoadMF
    \/ RunLoadGarmin
    \/ RunValidate
    \/ RunAnalyzer
    \/ RunReport

NextValidate == RunValidate

-----------------------------------------------------------------------------
(* A caller holding a MacroFactorData                                      *)

\* mf_data.calories_macros / mf_data.nutrition_program
ReadSheet(sheet_name) ==
    /\ pc = "session"
    /\ \E r \in Get(sheets, wb, sheet_name) :
        /\ sheets' = r.cache
        /\ error' = IF r.ok THEN "none" ELSE r.err
    /\ UNCHANGED <<pc, week, today, week_start, week_end, wb, mf_loaded, garmin,
                   garmin_loaded, warnings, invoked, targets, cols>>
    /\ UNCHANGED <<trace, fn, app>>

\* mf_data.get_current_targets()
GetCurrentTargets ==
    /\ pc = "session"
    /\ \E r \in GetCurrentTargetsOutcomes(sheets, wb) :
        /\ sheets' = r.cache
        /\ IF r.ok
           THEN targets' = r.targets /\ cols' = r.cols /\ error' = "none"
           ELSE targets' = NoTargets /\ cols' = NoCols /\ error' = r.err
    /\ UNCHANGED <<pc, week, today, week_start, week_end, wb, mf_loaded, garmin,
                   garmin_loaded, warnings, invoked>>
    /\ UNCHANGED <<trace, fn, app>>

NextSession ==
    \/ \E n \in SheetNames : ReadSheet(n)
    \/ GetCurrentTargets

-----------------------------------------------------------------------------
(* Inputs                                                                  *)

HdrDate == Text(<<"D", "a", "t", "e">>)

HdrCalories == Text(<<"C", "a", "l", "o", "r", "i", "e", "s", " ", "(", "k", "c", "a", "l", ")">>)

HdrKcal == Text(<<"K", "C", "A", "L">>)

HdrProtein == Text(<<"P", "r", "o", "t", "e", "i", "n", " ", "(", "g", ")">>)

HdrFat == Text(<<"F", "a", "t", " ", "(", "g", ")">>)

HdrSatFat == Text(<<"S", "a", "t", " ", "F", "a", "t">>)

HdrExpenditure == Text(<<"E", "x", "p", "e", "n", "d", "i", "t", "u", "r", "e">>)

HdrNotes == Text(<<"N", "o", "t", "e", "s">>)

IsoStr(y, m, d) == Str("iso", y, m, d, 4, FALSE, FALSE)

MdyStr(m, d, y) == Str("mdy", m, d, y, 4, FALSE, FALSE)

EmptyStr == Str("empty", 0, 0, 0, 0, FALSE, FALSE)

BlankStr == Str("empty", 0, 0, 0, 0, FALSE, TRUE)

OtherStr == Str("other", 0, 0, 0, 0, FALSE, FALSE)

\* Sequences of at most n elements of S
SeqsUpTo(S, n) == UNION {[1..k -> S] : k \in 0..n}

\* Orderings of at most n distinct elements of S
DistinctSeqsUpTo(S, n) ==
    {q \in SeqsUpTo(S, n) : \A i, j \in 1..Len(q) : i # j => q[i] # q[j]}

Jan(d) == Ymd2Ord(2024, 1, d)

InitWith(pc0, weeks, days, books, activities) ==
    /\ pc = pc0
    /\ week \in weeks
    /\ today \in days
    /\ wb \in books
    /\ garmin \in activities
    /\ week_start = NoDate
    /\ week_end = NoDate
    /\ error = "none"
    /\ sheets = [n \in SheetNames |-> Unloaded]
    /\ mf_loaded = FALSE
    /\ garmin_loaded = FALSE
    /\ warnings = <<>>
    /\ invoked = <<>>
    /\ targets = NoTargets
    /\ cols = NoCols
    /\ calls = <<>>
    /\ report = NoReport
    /\ first = NoRun
    /\ AppAtRest
    /\ arg = None
    /\ result = NoResult

Book(cm, np) ==
    [n \in SheetNames |-> IF n = SHEET_CALORIES_MACROS THEN cm ELSE np]

-----------------------------------------------------------------------------
(* The window resolver inside run_full                                     *)

NumDays == 8

WeekPool ==
    {None, EmptyStr, BlankStr, OtherStr, MdyStr(2, 27, 2024),
     Str("iso", 2024, 2, 27, 4, TRUE, FALSE),
     Str("iso", 2024, 2, 27, 4, FALSE, TRUE)}
    \cup {IsoStr(2024, m, d) : m \in {2, 3, 13}, d \in 23..(23 + NumDays)}

TodayPool == Ymd2Ord(2024, 2, 26)..(Ymd2Ord(2024, 2, 26) + NumDays - 1)

PlainBook ==
    Book(Sheet(<< <<HdrDate, HdrCalories>>, <<DateV(Ymd2Ord(2024, 2, 27)), Num(2100)>> >>),
         Absent)

PlainRuns == << Activity(Ymd2Ord(2024, 2, 28), "run", 6) >>

InitWindow == InitWith("start", WeekPool, TodayPool, {PlainBook}, {PlainRuns})

SpecWindow == InitWindow /\ [][NextRun]_vars

-----------------------------------------------------------------------------
(* The loader on sheets with every kind of date cell                       *)

MaxSheetRows == 3

DateCellPool ==
    {None,
     DateV(Jan(15)),
     DateTimeV(Jan(15), 30600),
     Num(45306),
     MdyStr(1, 16, 2024),
     MdyStr(13, 45, 2024),
     MdyStr(1, 1, 1500),
     IsoStr(2024, 1, 17),
     Str("iso", 2024, 1, 18, 4, TRUE, TRUE),
     IsoStr(2024, 2, 30),
     OtherStr}

DateSheets ==
    {Sheet(<< <<HdrDate, HdrCalories>> >> \o [k \in 1..Len(q) |-> <<q[k], Num(2000 + k)>>]) :
        q \in SeqsUpTo(DateCellPool, MaxSheetRows)}

InitDates ==
    InitWith("session", {None}, {Jan(17)}, {Book(cm, Absent) : cm \in DateSheets}, {<<>>})

SpecDates == InitDates /\ [][NextSession]_vars

-----------------------------------------------------------------------------
(* The Nutrition Program Settings sheet and the current targets            *)

MaxTargetRows == 2

TargetDateCells == {DateV(Jan(15)), DateV(Jan(16)), OtherStr}

TargetValueCells == {None, Num(0), Num(1900), NumStr(2200)}

TargetSheets ==
    {Absent, Sheet(<<>>)}
    \cup {Sheet(<< <<HdrDate, h>> >> \o q) :
            h \in {HdrCalories, HdrFat},
            q \in SeqsUpTo({<<d, v>> : d \in TargetDateCells, v \in TargetValueCells},
                           MaxTargetRows)}

InitTargets ==
    InitWith("session", {None}, {Jan(17)}, {Book(Absent, np) : np \in TargetSheets}, {<<>>})

SpecTargets == InitTargets /\ [][NextSession]_vars

-----------------------------------------------------------------------------
(* Column discovery over reordered and renamed headers                     *)

MaxCols == 3

HeaderPool == {HdrCalories, HdrKcal, HdrFat, HdrSatFat, HdrProtein, HdrExpenditure, HdrNotes}

ColumnSheets ==
    {Sheet(<< <<HdrDate>> \o hs,
              <<DateV(Jan(15))>> \o [j \in 1..Len(hs) |-> Num(10 + j)] >>) :
        hs \in DistinctSeqsUpTo(HeaderPool, MaxCols)}

InitColumns ==
    InitWith("session", {None}, {Jan(17)}, {Book(Absent, np) : np \in ColumnSheets}, {<<>>})

SpecColumns == InitColumns /\ [][NextSession]_vars

-----------------------------------------------------------------------------
(* The coverage validator, called with both files loaded                   *)

MaxCmRows == 5

MaxRuns == 2

\* a fortnight's log in date order, one day entered twice
CmRowPool ==
    << <<DateV(Jan(14)), Num(3400)>>, <<DateV(Jan(15)), Num(1800)>>,
       <<DateV(Jan(16)), Num(3400)>>, <<DateV(Jan(16)), Num(1800)>>,
       <<DateV(Jan(17)), Num(2100)>>, <<DateV(Jan(18)), Num(1900)>>,
       <<DateV(Jan(19)), Num(2000)>> >>

CmSheets ==
    {Absent}
    \cup {Sheet(<< <<HdrDate, h>> >> \o Pick(CmRowPool, S)) :
            h \in {HdrCalories, HdrProtein},
            S \in {T \in SUBSET (1..Len(CmRowPool)) : Cardinality(T) <= MaxCmRows}}

ActivityPool ==
    {Activity(Jan(16), "run", 5), Activity(Jan(16), "run", 16),
     Activity(Jan(20), "run", 16), Activity(Jan(14), "run", 16)}

InitCoverage ==
    /\ pc = "validate"
    /\ week = IsoStr(2024, 1, 17)
    /\ today = Jan(30)
    /\ wb \in {Book(cm, Absent) : cm \in CmSheets}
    /\ garmin \in SeqsUpTo(ActivityPool, MaxRuns)
    /\ week_start = ParseWeekArg(week, today).start
    /\ week_end = ParseWeekArg(week, today).end
    /\ error = "none"
    /\ sheets = [n \in SheetNames |-> Unloaded]
    /\ mf_loaded = TRUE
    /\ garmin_loaded = TRUE
    /\ warnings = <<>>
    /\ invoked = <<>>
    /\ targets = NoTargets
    /\ cols = NoCols
    /\ calls = <<>>
    /\ report = NoReport
    /\ first = NoRun
    /\ AppAtRest
    /\ arg = None
    /\ result = NoResult

SpecCoverage == InitCoverage /\ [][NextValidate]_vars

-----------------------------------------------------------------------------
(* Properties of the window resolver (SpecWindow)                          *)

\* the window has been resolved
Resolved == pc \notin {"start", "raised"}

\* the reference date of the call: the date the week string names, else today
RefDate ==
    IF week.t = "str" /\ week.shape = "iso"
    THEN Ymd2Ord(week.a, week.b, week.c)
    ELSE today

\* C1: for every valid reference date d, explicit or today's, the resolved
\* window starts on a Monday (ordinal 1, 0001-01-01, is a Monday), ends six
\* days after its start, and contains d.
C1_WindowIsMondayWeekOfReference ==
    Resolved =>
        /\ (week_start - 1) % 7 = 0
        /\ week_end = week_start + 6
        /\ week_start <= RefDate
        /\ RefDate <= week_end

\* C1 witness: an explicit date that is a Sunday, resolved to the week it ends
C1_Witness ==
    /\ pc = "done"
    /\ week.t = "str"
    /\ RefDate = week_end
    /\ week_start = RefDate - 6

\* nothing of the run has happened beyond the failed window resolution
FailedBeforeLoading ==
    /\ pc = "raised"
    /\ error = "InvalidWeek"
    /\ week_start = NoDate
    /\ week_end = NoDate
    /\ ~mf_loaded
    /\ ~garmin_loaded
    /\ invoked = <<>>

\* C2 as stated: whenever an explicit week string that does not parse as a
\* calendar date is supplied, window resolution fails with the invalid-week
\* error and run_full fails before any file is loaded or analyzer invoked.
C2_AnyUnparsableWeekFails ==
    (week.t = "str" /\ ~FromIsoFormat(week).ok /\ pc # "start")
        => FailedBeforeLoading

\* C2 amended: the same for every non-empty week string; the empty string is
\* taken as no week at all and resolves to the current week.
C2_NonEmptyUnparsableWeekFails ==
    /\ (week.t = "str" /\ week # EmptyStr /\ ~FromIsoFormat(week).ok /\ pc # "start")
          => FailedBeforeLoading
    /\ (week = EmptyStr /\ pc # "start")
          => (Resolved /\ week_start <= today /\ today <= week_end)

\* C2 witness: 2024-02-30 was given and the run has failed on it
C2_Witness ==
    /\ week = IsoStr(2024, 2, 30)
    /\ FailedBeforeLoading

-----------------------------------------------------------------------------
(* Properties of date normalization and sheet loading (SpecDates)          *)

CM == SHEET_CALORIES_MACROS

NP == SHEET_NUTRITION_PROGRAM

\* the date cell of the k-th row under the header of the sheet
DateCell(name, k) == wb[name].data[k + 1][1]

RowCount(name) ==
    IF wb[name].t = "absent" \/ wb[name].data = <<>> THEN 0
    ELSE Len(wb[name].data) - 1

\* the table holds the k-th row of the Calories & Macros sheet, which is
\* known by its value
KeptCm(k) ==
    \E i \in 1..Len(sheets[CM].rows) :
        sheets[CM].rows[i].vals = <<ToNumeric(wb[CM].data[k + 1][2])>>

NativeDate(c) == c.t \in {"date", "datetime"}

\* a month/day/4-digit-year string, blanks around it allowed
MdyString(c) == c.t = "str" /\ c.shape = "mdy" /\ c.ydigits = 4 /\ ~c.tail

\* a string that starts with the ISO date of a real day
IsoString(c) == c.t = "str" /\ c.shape = "iso" /\ ValidYmd(c.a, c.b, c.c)

\* the day a cell of an accepted encoding names
DayOf(c) ==
    IF NativeDate(c) THEN c.ord
    ELSE IF c.shape = "mdy" THEN Ymd2Ord(c.c, c.a, c.b)
    ELSE Ymd2Ord(c.a, c.b, c.c)

\* the k-th row is in the table under the day d
KeptCmOn(k, d) ==
    \E i \in 1..Len(sheets[CM].rows) :
        /\ sheets[CM].rows[i].vals = <<ToNumeric(wb[CM].data[k + 1][2])>>
        /\ sheets[CM].rows[i].date = d

\* C3: a row whose date cell fails normalization, a month/day/year string
\* with month or day out of range included, is dropped, every other row is
\* loaded, and no error reaches the caller because of a bad date cell.
C3_BadDateRowsDroppedWithoutError ==
    /\ error # "ValueError"
    /\ sheets[CM] # Unloaded =>
          \A k \in 1..RowCount(CM) :
              LET c == DateCell(CM, k) IN
              KeptCm(k) <=>
                 \/ NativeDate(c)
                 \/ MdyString(c) /\ ValidYmd(c.c, c.a, c.b)
                 \/ IsoString(c)

\* C4 as stated: exactly two encodings are accepted, native date/time values
\* and month/day/4-digit-year strings; a row with any other string, an ISO
\* string for example, is dropped from the loaded table.
C4_ExactlyTwoEncodings ==
    sheets[CM] # Unloaded =>
        \A k \in 1..RowCount(CM) :
            KeptCm(k) <=> (NativeDate(DateCell(CM, k)) \/ MdyString(DateCell(CM, k)))

\* C4 amended: in every table the loader produces the rows kept are exactly
\* those whose date cell is a native date/time value, a month/day/4-digit-year
\* string, or a string that starts with an ISO year-month-day date, each under
\* the day it names; a row with any other string is dropped.
C4_ThreeEncodings ==
    sheets[CM] # Unloaded =>
        \A k \in 1..RowCount(CM) :
            LET c == DateCell(CM, k) IN
            /\ KeptCm(k) <=> (NativeDate(c) \/ MdyString(c) \/ IsoString(c))
            /\ KeptCm(k) => KeptCmOn(k, DayOf(c))

\* C4 witness: a table that kept an ISO row and dropped a row of other text
C4_Witness ==
    /\ sheets[CM] # Unloaded
    /\ \E k, j \in 1..RowCount(CM) :
          /\ IsoString(DateCell(CM, k)) /\ DateCell(CM, k).tail /\ KeptCm(k)
          /\ DateCell(CM, j) = OtherStr /\ ~KeptCm(j)

\* C5: in every table the loader produces each row's date is a pure calendar
\* date (a whole day, whatever time the cell carried) and no two rows carry
\* the same date.
C5_PureAndUniqueDates ==
    sheets[CM] # Unloaded =>
        /\ \A k \in 1..RowCount(CM) :
              (KeptCm(k) /\ NativeDate(DateCell(CM, k)))
                  => KeptCmOn(k, DateCell(CM, k).ord)
        /\ \A i, j \in 1..Len(sheets[CM].rows) :
              i # j => sheets[CM].rows[i].date # sheets[CM].rows[j].date

-----------------------------------------------------------------------------
(* Properties of the current targets (SpecTargets)                         *)

\* get_current_targets has returned
HaveTargets == targets # NoTargets

\* the sheet is absent from the workbook or has no row under its header
NoRows(name) == RowCount(name) = 0

\* C6: a sheet that is absent from the workbook, or has no rows, loads as an
\* empty table and never as a failure; with the Nutrition Program Settings
\* sheet absent get_current_targets returns the fallback of all five targets.
C6_AbsentSheetIsEmptyTable ==
    /\ \A name \in SheetNames :
          NoRows(name) =>
              /\ error = "none"
              /\ sheets[name] # Unloaded => DfEmpty(sheets[name])
    /\ (wb[NP].t = "absent" /\ pc = "session" /\ (HaveTargets \/ sheets[NP] # Unloaded))
          => /\ error = "none"
             /\ HaveTargets => \A k \in TargetKeys : targets[k] = defaults[k]

\* C6 witness: the targets were asked of a workbook without the sheet
C6_Witness ==
    /\ wb[NP].t = "absent"
    /\ sheets[NP] = EmptyDf
    /\ HaveTargets
    /\ targets.calories = Fallback("FALLBACK_CALORIE_TARGET")

\* the rows of the targets sheet that carry a date
DatedRows == {k \in 1..RowCount(NP) : NativeDate(DateCell(NP, k))}

\* those of the greatest date
LatestRows ==
    {k \in DatedRows : \A j \in DatedRows : DateCell(NP, j).ord <= DateCell(NP, k).ord}

\* the number in the k-th row of the sheet under the located column
SourceValue(k, col) ==
    ToNumeric(PadRow(wb[NP].data[k + 1], Len(wb[NP].data[1]))
                [ColIndex(sheets[NP].columns, col)])

-----------------------------------------------------------------------------
(* Properties of column discovery (SpecColumns)                            *)

\* the orderings of the columns that leave the date column first
Orderings(q) ==
    {[i \in 1..Len(q) |-> q[f[i]]] :
        f \in {g \in [1..Len(q) -> 1..Len(q)] :
                 /\ g[1] = 1
                 /\ \A i, j \in 1..Len(q) : i # j => g[i] # g[j]}}

Names(columns) == {columns[i] : i \in 1..Len(columns)}

\* the columns whose name contains the keyword, case ignored
Matching(columns, kw) == {c \in Names(columns) : Contains(Lower(c), Lower(kw))}

\* the first keyword of the list that some column contains, 0 when none does
Deciding(columns, cands) ==
    IF \E i \in 1..Len(cands) : Matching(columns, cands[i]) # {}
    THEN CHOOSE i \in 1..Len(cands) :
            /\ Matching(columns, cands[i]) # {}
            /\ \A j \in 1..(i - 1) : Matching(columns, cands[j]) = {}
    ELSE 0

\* C8 as stated: discovery returns a column whose name contains one of the
\* concept's keywords, case ignored, returns none only when no column name
\* contains any keyword, and chooses the same column however the columns are
\* ordered.
C8_DiscoveryIgnoresColumnOrder ==
    (HaveTargets /\ ~DfEmpty(sheets[NP])) =>
        \A key \in TargetKeys :
            LET columns == sheets[NP].columns
                cands == Candidates[key]
            IN  /\ cols[key] # NoCol =>
                      \E i \in 1..Len(cands) : cols[key] \in Matching(columns, cands[i])
                /\ cols[key] = NoCol => Deciding(columns, cands) = 0
                /\ \A q \in Orderings(columns) : FindCol(q, cands) = cols[key]

\* C8 amended: discovery returns the first column, in column order, whose
\* name contains the earliest keyword of the list that any column name
\* contains, and none only when no column name contains any keyword; the
\* choice is the same however the columns are ordered whenever a single
\* column contains that keyword.
C8_DiscoveryIsFirstMatchOfFirstKeyword ==
    (HaveTargets /\ ~DfEmpty(sheets[NP])) =>
        \A key \in TargetKeys :
            LET columns == sheets[NP].columns
                cands == Candidates[key]
                d == Deciding(columns, cands)
            IN  /\ cols[key] = NoCol <=> d = 0
                /\ d # 0 =>
                      /\ cols[key] \in Matching(columns, cands[d])
                      /\ \A i \in 1..Len(columns) :
                            (columns[i] \in Matching(columns, cands[d]))
                                => ColIndex(columns, cols[key]) <= i
                      /\ Cardinality(Matching(columns, cands[d])) = 1 =>
                            \A q \in Orderings(columns) : FindCol(q, cands) = cols[key]

\* C8 witness: the calories column was found by its second keyword, behind
\* another column, and the only column of fat by its keyword
C8_Witness ==
    /\ HaveTargets
    /\ Len(sheets[NP].columns) = 4
    /\ cols.calories = sheets[NP].columns[4]
    /\ Deciding(sheets[NP].columns, Candidates.calories) = 2
    /\ cols.fat_g = sheets[NP].columns[3]
    /\ Cardinality(Matching(sheets[NP].columns, KwFat)) = 1

-----------------------------------------------------------------------------
(* Properties of the coverage validator (SpecCoverage)                     *)

\* _validate_data_coverage has returned
Validated == pc = "analyze"

HasCalories(name) ==
    /\ RowCount(name) > 0
    /\ Len(wb[name].data[1]) >= 2
    /\ \/ Contains(Lower(wb[name].data[1][2].s), KwCalorie)
       \/ Contains(Lower(wb[name].data[1][2].s), KwKcal)

\* the rows of the Calories & Macros sheet dated inside the window
WindowRows ==
    {k \in 1..RowCount(CM) :
        /\ NativeDate(DateCell(CM, k))
        /\ week_start <= DateCell(CM, k).ord
        /\ DateCell(CM, k).ord <= week_end}

LoggedDays == {DateCell(CM, k).ord : k \in WindowRows}

\* the in-window rows above the spike threshold
SpikeRows ==
    {k \in WindowRows :
        /\ HasCalories(CM)
        /\ wb[CM].data[k + 1][2].t = "num"
        /\ wb[CM].data[k + 1][2].n > 3000}

WarningsOf(kind) == {i \in 1..Len(warnings) : warnings[i].kind = kind}

\* C9: whenever fewer than 5 days are logged in the window and some in-window
\* day has calories above 3000 kcal, the validator's output holds a
\* low-logged-days warning and a calorie-spike warning for that day, whatever
\* the activity table contains.
C9_LowDaysAndSpikeBothWarned ==
    (Validated /\ Cardinality(LoggedDays) < 5 /\ SpikeRows # {}) =>
        /\ WarningsOf("low_logged_days") # {}
        /\ \A k \in SpikeRows :
              \E i \in WarningsOf("calorie_spike") :
                  /\ warnings[i].date = DateCell(CM, k).ord
                  /\ warnings[i].n = wb[CM].data[k + 1][2].n

\* the runs of the activity file inside the window and longer than 15 miles
LongRuns ==
    {i \in 1..Len(garmin) :
        /\ garmin[i].type = "run"
        /\ week_start <= garmin[i].date
        /\ garmin[i].date <= week_end
        /\ garmin[i].distance_mi > 15}

\* C10: for every run in the window longer than 15 miles the validator emits
\* one long-run warning for that run, whatever the nutrition table contains.
C10_EveryLongRunWarnedOnce ==
    Validated =>
        /\ Cardinality(WarningsOf("long_run")) = Cardinality(LongRuns)
        /\ \A i \in LongRuns :
              \E j \in WarningsOf("long_run") :
                  /\ warnings[j].date = garmin[i].date
                  /\ warnings[j].n = garmin[i].distance_mi

-----------------------------------------------------------------------------
(* The validator on activity files with several run dates                  *)

MaxGapRuns == 3

\* the state in which run_full calls the validator on the week of Jan 17
InitValidate(books, activities) ==
    /\ pc = "validate"
    /\ week = IsoStr(2024, 1, 17)
    /\ today = Jan(30)
    /\ wb \in books
    /\ garmin \in activities
    /\ week_start = ParseWeekArg(week, today).start
    /\ week_end = ParseWeekArg(week, today).end
    /\ error = "none"
    /\ sheets = [n \in SheetNames |-> Unloaded]
    /\ mf_loaded = TRUE
    /\ garmin_loaded = TRUE
    /\ warnings = <<>>
    /\ invoked = <<>>
    /\ targets = NoTargets
    /\ cols = NoCols
    /\ calls = <<>>
    /\ report = NoReport
    /\ first = NoRun
    /\ AppAtRest
    /\ arg = None
    /\ result = NoResult

OneDayBook ==
    Book(Sheet(<< <<HdrDate, HdrCalories>>, <<DateV(Jan(16)), Num(2100)>> >>), Absent)

GapActivityPool ==
    {Activity(Jan(14), "run", 4), Activity(Jan(15), "run", 5),
     Activity(Jan(16), "run", 6), Activity(Jan(18), "run", 3),
     Activity(Jan(19), "strength", 0), Activity(Jan(21), "run", 8),
     Activity(Jan(22), "run", 5)}

InitGaps == InitValidate({OneDayBook}, SeqsUpTo(GapActivityPool, MaxGapRuns))

SpecGaps == InitGaps /\ [][NextValidate]_vars

-----------------------------------------------------------------------------
(* Properties of the run-gap check (SpecGaps)                              *)

\* the distinct days inside the window on which the activity file has a run
RunDates ==
    {garmin[i].date : i \in {j \in 1..Len(garmin) :
                                /\ garmin[j].type = "run"
                                /\ week_start <= garmin[j].date
                                /\ garmin[j].date <= week_end}}

\* the days between each run date and the next one
ConsecutiveGaps ==
    {e - d : <<d, e>> \in {p \in RunDates \X RunDates :
                              /\ p[1] < p[2]
                              /\ ~\E f \in RunDates : p[1] < f /\ f < p[2]}}

\* C11: the validator emits a run-gap warning exactly when two consecutive
\* distinct run dates inside the window are more than 2 days apart; it emits
\* at most one, which reports the largest gap, and none when the window holds
\* fewer than two distinct run dates.
C11_RunGapWarnedOnceWithLargestGap ==
    Validated =>
        /\ Cardinality(WarningsOf("run_gap")) <= 1
        /\ (WarningsOf("run_gap") # {}) <=> (\E x \in ConsecutiveGaps : x > 2)
        /\ \A i \in WarningsOf("run_gap") :
              /\ warnings[i].n \in ConsecutiveGaps
              /\ \A x \in ConsecutiveGaps : x <= warnings[i].n
        /\ Cardinality(RunDates) < 2 => WarningsOf("run_gap") = {}

\* three run dates in the window, one gap small and one large, and the warning
C11_Witness ==
    /\ Validated
    /\ Cardinality(RunDates) = 3
    /\ \E x, y \in ConsecutiveGaps : x <= 2 /\ y > 2
    /\ WarningsOf("run_gap") # {}

-----------------------------------------------------------------------------
(* run_full called again on the same files, and run_analysis               *)

\* what a finished call of run_full gave: its result or the error it raised
Outcome ==
    [pc |-> pc, week_start |-> week_start, week_end |-> week_end,
     error |-> error, warnings |-> warnings, calls |-> calls, report |-> report]

\* the days the clock may have advanced between two calls
ClockSteps == {0, 3, 7}

\* the caller runs the analysis once more on the same two files with the
\* same week argument; date.today() may have moved on
RunAgain ==
    /\ pc \in {"done", "raised"}
    /\ first = NoRun
    /\ first' = [at |-> today, outcome |-> Outcome]
    /\ \E k \in ClockSteps : today' = today + k
    /\ pc' = "start"
    /\ week_start' = NoDate
    /\ week_end' = NoDate
    /\ error' = "none"
    /\ sheets' = [n \in SheetNames |-> Unloaded]
    /\ mf_loaded' = FALSE
    /\ garmin_loaded' = FALSE
    /\ warnings' = <<>>
    /\ invoked' = <<>>
    /\ calls' = <<>>
    /\ report' = NoReport
    /\ UNCHANGED <<week, wb, garmin, targets, cols, fn, app>>

AnalysisOrder == <<"running", "nutrition", "body_comp", "build_analysis_prompt">>

\* the arguments run_analysis passes to each analyzer and to the prompt builder
AnalysisArgs(name, g, mf, ws, we, cs) ==
    CASE name = "running" ->
            [garmin_data |-> g, week_start |-> ws, week_end |-> we]
      [] name = "nutrition" ->
            [mf_data |-> mf, week_start |-> ws, week_end |-> we,
             weekly_mileage |->
                Field(ResultOf(cs, "run_analysis", "running"), <<"current", "total_miles">>)]
      [] name = "body_comp" ->
            [mf_data |-> mf, week_start |-> ws, week_end |-> we,
             avg_daily_deficit |->
                Field(ResultOf(cs, "run_analysis", "nutrition"), <<"avg_daily_deficit">>)]
      [] name = "build_analysis_prompt" ->
            [ra |-> ResultOf(cs, "run_analysis", "running"),
             na |-> ResultOf(cs, "run_analysis", "nutrition"),
             ba |-> ResultOf(cs, "run_analysis", "body_comp")]

CallsBy(by) == SelectSeq(calls, LAMBDA c : c.by = by)

\* run_analysis on the RunResult of a finished run_full, one call at a time
RunAnalysis ==
    /\ pc \in {"done", "chat"}
    /\ Len(CallsBy("run_analysis")) < Len(AnalysisOrder)
    /\ LET name == AnalysisOrder[Len(CallsBy("run_analysis")) + 1] IN
        calls' = Append(calls,
                        Call("run_analysis", name,
                             AnalysisArgs(name, garmin, MfData(wb, sheets),
                                          week_start, week_end, calls)))
    /\ pc' = "chat"
    /\ UNCHANGED <<week, today, week_start, week_end, error, wb, sheets,
                   mf_loaded, garmin, garmin_loaded, warnings, invoked, targets, cols>>
    /\ UNCHANGED <<report, first, fn, app>>

NextPipeline ==
    \/ RunParseWeek
    \/ RunLoadMF
    \/ RunLoadGarmin
    \/ RunValidate
    \/ RunAnalyzer
    \/ RunReport
    \/ RunAgain
    \/ RunAnalysis

PipelineWeeks == {None, EmptyStr, OtherStr, IsoStr(2024, 1, 17), IsoStr(2024, 1, 25)}

\* five quiet days; one day with a spike; no sheet; a sheet whose date fails
PipelineBooks ==
    {Book(Sheet(<< <<HdrDate, HdrCalories>> >>
                \o [k \in 1..5 |-> <<DateV(Jan(14 + k)), Num(1800 + k)>>]), Absent),
     Book(Sheet(<< <<HdrDate, HdrCalories>>, <<DateV(Jan(16)), Num(3400)>> >>), Absent),
     Book(Absent, Absent),
     Book(Sheet(<< <<HdrDate, HdrCalories>>, <<MdyStr(13, 45, 2024), Num(1800)>> >>), Absent)}

PipelineActivities ==
    {<<>>,
     <<Activity(Jan(16), "run", 5), Activity(Jan(17), "run", 6)>>,
     <<Activity(Jan(15), "run", 16), Activity(Jan(20), "run", 5)>>}

InitPipeline ==
    InitWith("start", PipelineWeeks, {Jan(17)}, PipelineBooks, PipelineActivities)

SpecPipeline == InitPipeline /\ [][NextPipeline]_vars

-----------------------------------------------------------------------------
(* Properties of the pipeline (SpecPipeline)                               *)

\* the argument names each callee is given
ArgNames(name) ==
    CASE name = "running" -> {"garmin_data", "week_start", "week_end"}
      [] name = "strength" -> {"mf_data", "week_start", "week_end"}
      [] name = "nutrition" -> {"mf_data", "week_start", "week_end", "weekly_mileage"}
      [] name = "body_comp" -> {"mf_data", "week_start", "week_end", "avg_daily_deficit"}
      [] name = "signals" -> {"running", "strength", "nutrition", "body_comp"}
      [] OTHER -> {"ra", "na", "ba"}

\* a cached table is what the loader makes of the workbook's sheet
AsLoaded(book, cache) ==
    \A n \in SheetNames : cache[n] # Unloaded => Loaded(cache[n]) \in Parser(n, book)

\* what the analyzers are given is the two loaded files and the window
InputsAreTheLoadedTables ==
    \A i \in 1..Len(calls) :
        LET a == calls[i].args IN
        /\ DOMAIN a = ArgNames(calls[i].fn)
        /\ "garmin_data" \in DOMAIN a => a.garmin_data = garmin
        /\ "mf_data" \in DOMAIN a =>
              /\ a.mf_data.wb = wb
              /\ a.mf_data.sheets = sheets
              /\ AsLoaded(wb, a.mf_data.sheets)
        /\ "week_start" \in DOMAIN a =>
              /\ a.week_start = week_start
              /\ a.week_end = week_end

\* the report is what formatter.build returned, after the warnings if any
WarningsOnlyPrepended ==
    pc \in {"done", "chat"} =>
        /\ report[Len(report)] = Call("run_full", "formatter.build", BuildArgs(calls))
        /\ IF warnings = <<>> THEN Len(report) = 1
           ELSE Len(report) = 2 /\ report[1] = [warn_block |-> warnings]

\* C12: coverage validation is advisory only.  Whatever the validator warned
\* (nothing or much), the analyzers and the signal detector are given the
\* loaded files and the window and nothing of the warnings; the validator
\* leaves the workbook, the activity rows and every table already loaded as
\* they were, and a table it loads is the loader's; a run that has warnings
\* has not raised, and its report is the formatter's text with the warnings
\* put before it.
C12_ValidationIsAdvisory ==
    /\ [](/\ InputsAreTheLoadedTables
          /\ (warnings # <<>> => error = "none" /\ pc \in {"analyze", "done", "chat"})
          /\ WarningsOnlyPrepended)
    /\ [][pc = "validate" =>
            /\ wb' = wb
            /\ garmin' = garmin
            /\ \A n \in SheetNames : sheets[n] # Unloaded => sheets'[n] = sheets[n]
            /\ AsLoaded(wb, sheets')]_vars

\* a finished run with four warnings, all five calls made and the report built
C12_Witness ==
    /\ pc = "done"
    /\ Len(warnings) >= 4
    /\ Len(calls) = 5
    /\ sheets[CM] # Unloaded
    /\ Len(report) = 2

CallNames(cs) == [i \in 1..Len(cs) |-> cs[i].fn]

IsPrefix(a, b) == Len(a) <= Len(b) /\ a = SubSeq(b, 1, Len(a))

\* the value `path` of what the k-th call returned
ValueOf(k, path) == [t |-> "field", of |-> [t |-> "result", of |-> calls[k]], path |-> path]

\* the call of `name` by `by` is at position k and nowhere else
CalledAt(by, name, k) ==
    /\ calls[k].by = by
    /\ calls[k].fn = name
    /\ \A j \in 1..Len(calls) : (calls[j].by = by /\ calls[j].fn = name) => j = k

\* the caller `by` threads mileage into Nutrition and the deficit into Body Composition
Threaded(by) ==
    \A i \in 1..Len(calls) :
        /\ (calls[i].by = by /\ calls[i].fn = "nutrition") =>
              \E k \in 1..(i - 1) :
                  /\ CalledAt(by, "running", k)
                  /\ calls[i].args.weekly_mileage = ValueOf(k, <<"current", "total_miles">>)
        /\ (calls[i].by = by /\ calls[i].fn = "body_comp") =>
              \E k \in 1..(i - 1) :
                  /\ CalledAt(by, "nutrition", k)
                  /\ calls[i].args.avg_daily_deficit = ValueOf(k, <<"avg_daily_deficit">>)

\* C13: run_full calls Running, Strength, Nutrition, Body Composition and
\* then the signal detector, in that order and all of them before it returns;
\* Nutrition is given the total mileage of Running's result, Body Composition
\* the average daily deficit of Nutrition's result, the signal detector the
\* four results; run_analysis threads the same two values the same way.
C13_AnalyzersInOrderAndThreaded ==
    /\ IsPrefix(CallNames(CallsBy("run_full")),
                <<"running", "strength", "nutrition", "body_comp", "signals">>)
    /\ pc \in {"done", "chat"} => Len(CallsBy("run_full")) = 5
    /\ Threaded("run_full")
    /\ \A i \in 1..Len(calls) :
          (calls[i].by = "run_full" /\ calls[i].fn = "signals") =>
              \A n \in {"running", "strength", "nutrition", "body_comp"} :
                  \E k \in 1..(i - 1) :
                      /\ CalledAt("run_full", n, k)
                      /\ calls[i].args[n] = [t |-> "result", of |-> calls[k]]
    /\ Threaded("run_analysis")

\* both paths have run to their end
C13_Witness ==
    /\ pc = "chat"
    /\ CallNames(CallsBy("run_full")) = <<"running", "strength", "nutrition", "body_comp", "signals">>
    /\ CallNames(CallsBy("run_analysis")) = <<"running", "nutrition", "body_comp", "build_analysis_prompt">>

Finished == pc \in {"done", "raised"}

-----------------------------------------------------------------------------
(* The validator on a fully logged week                                    *)

\* every day of the week of Jan 15, one day entered a second time with a
\* time of day, and the Monday after
FullWeekPool ==
    [k \in 1..7 |-> <<DateV(Jan(14 + k)), Num(1800 + k)>>]
    \o << <<DateTimeV(Jan(16), 30600), Num(450)>>, <<DateV(Jan(22)), Num(1900)>> >>

LoggedSheets ==
    {Sheet(<< <<HdrDate, HdrCalories>> >> \o Pick(FullWeekPool, S)) :
        S \in SUBSET (1..Len(FullWeekPool))}

InitLogged ==
    InitValidate({Book(cm, Absent) : cm \in LoggedSheets},
                 {<<Activity(Jan(16), "run", 5)>>})

SpecLogged == InitLogged /\ [][NextValidate]_vars

-----------------------------------------------------------------------------
(* Properties of the logged-day count (SpecLogged)                         *)

\* logged_days as the validator computes it: the rows of the loaded
\* Calories & Macros table dated inside the window
LoggedDayCount ==
    IF sheets[CM] = Unloaded THEN 0
    ELSE Len(SelectSeq(sheets[CM].rows,
                       LAMBDA r : week_start <= r.date /\ r.date <= week_end))

\* C15: for every loaded nutrition table and Monday-Sunday window, the count
\* of logged days computed for the window is at most 7.
C15_LoggedDaysAtMostSeven ==
    Validated => LoggedDayCount <= 7

-----------------------------------------------------------------------------
(* Text built from analyzer results (recommendations.py, formatter.py)     *)
(* Numbers are held in tenths: 9.0 min/mi is 90, 150 bpm is 1500.          *)

Txt(s) == [t |-> "txt", s |-> s]

\* one f-string: a float formats under ":.1f", None raises TypeError
Line(label, vals) ==
    IF \E i \in 1..Len(vals) : vals[i].t = "None" THEN Raise("TypeError")
    ELSE [ok |-> TRUE, line |-> [label |-> label, vals |-> vals]]

\* "\n".join(lines), each line an f-string evaluated in turn
Join(parts) ==
    IF \E i \in 1..Len(parts) : ~parts[i].ok THEN Raise("TypeError")
    ELSE [ok |-> TRUE, lines |-> [i \in 1..Len(parts) |-> parts[i].line]]

\* value * k and abs(value): None raises TypeError where the result is used
Times(v, k) == IF v.t = "num" THEN Num(v.n * k) ELSE v

Abs(v) == IF v.t = "num" THEN Num(IF v.n < 0 THEN -v.n ELSE v.n) ELSE v

\* a if value < 0 else b: comparing None with 0 raises TypeError
IfNegative(v, a, b) ==
    IF v.t = "None" THEN None ELSE IF v.t = "num" /\ v.n < 0 THEN Txt(a) ELSE Txt(b)

\* _fmt_pace: "N/A" for a pace of 0 or less, else minutes:seconds
FmtPace(dec_min) ==
    IF dec_min.t = "None" THEN None
    ELSE IF dec_min.t = "num" /\ dec_min.n <= 0 THEN Txt("N/A")
    ELSE dec_min

\* the flag texts of _running_ctx, in its order
RunningFlags(ra) ==
    (IF ra.overreach_flag THEN <<Txt("overreach")>> ELSE <<>>)
    \o (IF ra.recovery_debt_flag THEN <<Txt("recovery_debt")>> ELSE <<>>)
    \o (IF ra.aerobic_adaptation_signal THEN <<Txt("aerobic_adaptation")>> ELSE <<>>)
    \o (IF ra.fatigue_signal THEN <<Txt("fatigue")>> ELSE <<>>)

\* _running_ctx with the pace and heart-rate lines written unconditionally
RunningCtx_Unguarded(ra) ==
    LET cur == ra.current
        avg == ra.rolling_4wk
    IN  Join(<<Line("this_week", <<cur.total_miles, Num(cur.run_count),
                                   cur.total_elevation_gain_ft>>),
               Line("pace", <<FmtPace(cur.flat_avg_pace_dec)>>),
               Line("pace_delta", <<Times(Abs(ra.pace_change_dec), 60),
                                    IfNegative(ra.pace_change_dec, "faster", "slower")>>),
               Line("hr", <<cur.flat_avg_hr>>),
               Line("hr_delta", <<ra.hr_change>>)>>
             \o (IF RunningFlags(ra) # <<>>
                 THEN <<Line("flags", RunningFlags(ra))>> ELSE <<>>))

\* _running_ctx
RunningCtx(ra) ==
    LET cur == ra.current
        avg == ra.rolling_4wk
    IN  Join(<<Line("this_week", <<cur.total_miles, Num(cur.run_count),
                                   cur.total_elevation_gain_ft>>)>>
             \o (IF Truthy(avg.total_miles)
                 THEN <<Line("avg", <<avg.total_miles>>),
                        Line("mileage_delta", <<Times(ra.mileage_change_pct, 100)>>)>>
                 ELSE <<>>)
             \o (IF Truthy(cur.flat_avg_pace_dec)
                 THEN <<Line("pace", <<FmtPace(cur.flat_avg_pace_dec)>>)>>
                      \o (IF Truthy(ra.pace_change_dec)
                          THEN <<Line("pace_delta",
                                      <<Times(Abs(ra.pace_change_dec), 60),
                                        IfNegative(ra.pace_change_dec, "faster", "slower")>>)>>
                          ELSE <<>>)
                 ELSE <<>>)
             \o (IF Truthy(cur.flat_avg_hr)
                 THEN <<Line("hr", <<cur.flat_avg_hr>>)>>
                      \o (IF Truthy(ra.hr_change)
                          THEN <<Line("hr_delta", <<ra.hr_change>>)>> ELSE <<>>)
                 ELSE <<>>)
             \o (IF Truthy(cur.avg_body_battery_drain)
                 THEN <<Line("body_battery", <<cur.avg_body_battery_drain>>)>> ELSE <<>>)
             \o (IF RunningFlags(ra) # <<>>
                 THEN <<Line("flags", RunningFlags(ra))>> ELSE <<>>))

\* _arrow: the arrow of a change, "→" when either value is None or the
\* change is below 0.5
Arrow(current, baseline, lower_is_better) ==
    IF current.t = "None" \/ baseline.t = "None" THEN Txt("flat")
    ELSE LET diff == current.n - baseline.n IN
         IF diff < 5 /\ -diff < 5 THEN Txt("flat")
         ELSE IF (diff > 0 /\ ~lower_is_better) \/ (diff < 0 /\ lower_is_better)
              THEN Txt("up") ELSE Txt("down")

\* the arrows and the guarded lines of the report's running section
RunningSection(ra) ==
    LET cur_r == ra.current
        roll_r == ra.rolling_4wk
    IN  Join(<<Line("arrows",
                    <<Arrow(cur_r.total_miles, roll_r.total_miles, FALSE),
                      Arrow(cur_r.flat_avg_pace_dec, roll_r.flat_avg_pace_dec, TRUE),
                      Arrow(cur_r.flat_avg_hr, roll_r.flat_avg_hr, TRUE),
                      Arrow(cur_r.total_elevation_gain_ft,
                            roll_r.total_elevation_gain_ft, FALSE)>>),
               Line("table",
                    <<cur_r.total_miles,
                      IF Truthy(roll_r.total_miles) THEN roll_r.total_miles ELSE Txt("N/A"),
                      cur_r.total_elevation_gain_ft, roll_r.total_elevation_gain_ft,
                      IF Truthy(roll_r.flat_avg_pace_dec)
                      THEN roll_r.flat_avg_pace_dec ELSE Txt("N/A")>>)>>
             \o (IF Truthy(cur_r.flat_avg_hr) /\ Truthy(cur_r.flat_avg_pace_dec)
                 THEN <<Line("efficiency", <<cur_r.flat_avg_hr, cur_r.flat_avg_pace_dec>>)>>
                 ELSE <<>>)
             \o (IF cur_r.avg_body_battery_drain.t # "None"
                 THEN <<Line("body_battery", <<cur_r.avg_body_battery_drain,
                                               cur_r.max_body_battery_drain>>)>>
                 ELSE <<>>))

-----------------------------------------------------------------------------
(* The Running analyzer, as the specification describes it                 *)

RECURSIVE SumField(_, _)
SumField(q, f) == IF q = <<>> THEN 0 ELSE Head(q)[f] + SumField(Tail(q), f)

\* the mean of a field over the runs, null when there is none
MeanField(q, f) == IF q = <<>> THEN None ELSE Num(SumField(q, f) \div Len(q))

MaxField(q, f) ==
    IF q = <<>> THEN None
    ELSE Num(CHOOSE m \in {q[i][f] : i \in 1..Len(q)} :
                \A i \in 1..Len(q) : q[i][f] <= m)

\* the summary of one period: pace and heart rate over the flat runs only
RunningSummary(runs) ==
    LET flat == SelectSeq(runs, LAMBDA r : ~r.trail)
        trail == SelectSeq(runs, LAMBDA r : r.trail)
    IN  [total_miles |-> Num(SumField(runs, "mi")),
         run_count |-> Len(runs),
         total_elevation_gain_ft |-> Num(SumField(runs, "gain")),
         flat_avg_pace_dec |-> MeanField(flat, "pace"),
         flat_avg_hr |-> MeanField(flat, "hr"),
         trail_run_count |-> Len(trail),
         avg_body_battery_drain |-> MeanField(runs, "drain"),
         max_body_battery_drain |-> MaxField(runs, "drain")]

\* current - baseline, null when either is null
Change(cur, base) ==
    IF cur.t = "num" /\ base.t = "num" THEN Num(cur.n - base.n) ELSE None

Negative(v) == v.t = "num" /\ v.n < 0

Positive(v) == v.t = "num" /\ v.n > 0

\* aerobic adaptation with a null change read as an improvement
AerobicAdaptation_NullIsFaster(pace_change, hr_change) ==
    ~Positive(pace_change) /\ ~Positive(hr_change)

\* pace improved while heart rate did not rise
AerobicAdaptation(pace_change, hr_change) ==
    Negative(pace_change) /\ hr_change.t = "num" /\ ~Positive(hr_change)

\* pace slower and heart rate higher, both together
Fatigue(pace_change, hr_change) == Positive(pace_change) /\ Positive(hr_change)

RunningAnalyze(cur_runs, base_runs) ==
    LET cur == RunningSummary(cur_runs)
        base == RunningSummary(base_runs)
        pace_change == Change(cur.flat_avg_pace_dec, base.flat_avg_pace_dec)
        hr_change == Change(cur.flat_avg_hr, base.flat_avg_hr)
    IN  [current |-> cur,
         rolling_4wk |-> base,
         mileage_change_pct |->
            IF base.total_miles.n > 0
            THEN Num(((cur.total_miles.n - base.total_miles.n) * 100) \div base.total_miles.n)
            ELSE None,
         pace_change_dec |-> pace_change,
         hr_change |-> hr_change,
         overreach_flag |->
            base.total_miles.n > 0 /\ cur.total_miles.n * 100 > base.total_miles.n * 110,
         recovery_debt_flag |->
            cur.avg_body_battery_drain.t = "num" /\ cur.avg_body_battery_drain.n > 150,
         aerobic_adaptation_signal |-> AerobicAdaptation(pace_change, hr_change),
         fatigue_signal |-> Fatigue(pace_change, hr_change)]

\* running.analyze, then the digest and the report section built from it
ApplyRunning ==
    /\ pc = "running"
    /\ LET ra == RunningAnalyze(arg.current, arg.baseline) IN
        result' = [ra |-> ra, ctx |-> RunningCtx(ra), section |-> RunningSection(ra)]
    /\ pc' = "returned"
    /\ UNCHANGED <<week, today, week_start, week_end, error, wb, sheets, mf_loaded,
                   garmin, garmin_loaded, warnings, invoked, targets, cols, trace, arg, app>>

NextRunning == ApplyRunning

MaxWindowRuns == 2

Run(trail, mi, gain, pace, hr, drain) ==
    [trail |-> trail, mi |-> mi, gain |-> gain, pace |-> pace, hr |-> hr, drain |-> drain]

\* two road runs and a trail run
RunPool ==
    {Run(FALSE, 50, 1200, 90, 1500, 100), Run(FALSE, 80, 2500, 100, 1600, 200),
     Run(TRUE, 60, 15000, 130, 1650, 180)}

\* a function of given arguments, about to be applied
InitFunction(pc0, args) ==
    /\ pc = pc0
    /\ arg \in args
    /\ result = NoResult
    /\ week = None
    /\ today = Jan(17)
    /\ week_start = Jan(15)
    /\ week_end = Jan(21)
    /\ error = "none"
    /\ wb = Book(Absent, Absent)
    /\ sheets = [n \in SheetNames |-> Unloaded]
    /\ mf_loaded = FALSE
    /\ garmin = <<>>
    /\ garmin_loaded = FALSE
    /\ warnings = <<>>
    /\ invoked = <<>>
    /\ targets = NoTargets
    /\ cols = NoCols
    /\ calls = <<>>
    /\ report = NoReport
    /\ first = NoRun
    /\ AppAtRest

InitRunning ==
    InitFunction("running",
                 [current : SeqsUpTo(RunPool, MaxWindowRuns),
                  baseline : SeqsUpTo(RunPool, MaxWindowRuns)])

SpecRunning == InitRunning /\ [][NextRunning]_vars

-----------------------------------------------------------------------------
(* Properties of the Running analyzer and its consumers (SpecRunning)      *)

NoFlatRuns == \A i \in 1..Len(arg.current) : arg.current[i].trail

\* C16: when the window has no flat run, the flat average pace and heart rate
\* are null, the aerobic-adaptation and fatigue flags are false, and the
\* digest and the report section are built without an error.
C16_NoFlatRunsGivesNullsAndNoFlags ==
    (pc = "returned" /\ NoFlatRuns) =>
        /\ result.ra.current.flat_avg_pace_dec = None
        /\ result.ra.current.flat_avg_hr = None
        /\ ~result.ra.aerobic_adaptation_signal
        /\ ~result.ra.fatigue_signal
        /\ result.ctx.ok
        /\ result.section.ok

\* a window of trail runs only, against a baseline that has flat runs
C16_Witness ==
    /\ pc = "returned"
    /\ NoFlatRuns
    /\ Len(arg.current) = 2
    /\ \E i \in 1..Len(arg.baseline) : ~arg.baseline[i].trail
    /\ result.ctx.ok
    /\ Len(result.ctx.lines) >= 3

-----------------------------------------------------------------------------
(* The Strength analyzer's PR and regression lists, as the specification   *)
(* describes them, and the report section that prints them                 *)

Exercises == <<"Squat", "Row">>

\* the tolerance below the prior best within which a lift is no regression
\* (the specification fixes no value; any value of 0 or more serves)
RegressionTolerance == 5

MaxOf(S) == CHOOSE m \in S : \A x \in S : x <= m

\* the loads logged inside the window
WindowLoads(entries, ws, we) == {x.load : x \in {y \in entries : ws <= y.date /\ y.date <= we}}

\* the loads of the four weeks before the window only
PriorHistory_BaselineOnly(entries, ws) ==
    {x.load : x \in {y \in entries : ws - 28 <= y.date /\ y.date < ws}}

\* the loads of all logged history before the window
PriorHistory(entries, ws) == {x.load : x \in {y \in entries : y.date < ws}}

IsPr(entries, ws, we) ==
    /\ WindowLoads(entries, ws, we) # {}
    /\ PriorHistory(entries, ws) # {}
    /\ MaxOf(WindowLoads(entries, ws, we)) > MaxOf(PriorHistory(entries, ws))

IsRegression(entries, ws, we) ==
    /\ WindowLoads(entries, ws, we) # {}
    /\ PriorHistory(entries, ws) # {}
    /\ MaxOf(WindowLoads(entries, ws, we))
          < MaxOf(PriorHistory(entries, ws)) - RegressionTolerance

StrengthAnalyze(history, ws, we) ==
    [workout_days |->
        Cardinality({x.date : x \in {y \in UNION {history[n] : n \in DOMAIN history} :
                                        ws <= y.date /\ y.date <= we}}),
     pr_exercises |-> SelectSeq(Exercises, LAMBDA n : IsPr(history[n], ws, we)),
     regression_exercises |->
        SelectSeq(Exercises, LAMBDA n : IsRegression(history[n], ws, we))]

\* the report's strength section: the PR list, then the regression list
StrengthSection(sa) ==
    Join(<<Line("workout_days", <<Num(sa.workout_days)>>)>>
         \o (IF sa.pr_exercises # <<>>
             THEN <<Line("prs", <<Num(Len(sa.pr_exercises))>>)>>
                  \o [i \in 1..Len(sa.pr_exercises) |->
                        Line("pr", <<Txt(sa.pr_exercises[i])>>)]
             ELSE <<>>)
         \o (IF sa.regression_exercises # <<>>
             THEN <<Line("regressions", <<Num(Len(sa.regression_exercises))>>)>>
                  \o [i \in 1..Len(sa.regression_exercises) |->
                        Line("regression", <<Txt(sa.regression_exercises[i])>>)]
             ELSE <<>>))

\* strength.analyze, then the report section built from it
ApplyStrength ==
    /\ pc = "strength"
    /\ LET sa == StrengthAnalyze(arg, week_start, week_end) IN
        result' = [sa |-> sa, section |-> StrengthSection(sa)]
    /\ pc' = "returned"
    /\ UNCHANGED <<week, today, week_start, week_end, error, wb, sheets, mf_loaded,
                   garmin, garmin_loaded, warnings, invoked, targets, cols, trace, arg, app>>

NextStrength == ApplyStrength

MaxHistory == 3

Lift(d, load) == [date |-> d, load |-> load]

\* a lift long before the baseline, one inside it, one in the window
LiftPool == {Lift(d, w) : d \in {Jan(15) - 60, Jan(15) - 10, Jan(16)}, w \in {100, 110, 120}}

InitStrength ==
    InitFunction("strength",
                 {[n \in {"Squat", "Row"} |-> IF n = "Squat" THEN h ELSE r] :
                    h \in {S \in SUBSET LiftPool : Cardinality(S) <= MaxHistory},
                    r \in {{}, {Lift(Jan(15) - 10, 80), Lift(Jan(17), 60)}}})

SpecStrength == InitStrength /\ [][NextStrength]_vars

-----------------------------------------------------------------------------
(* Properties of PR detection (SpecStrength)                               *)

\* the exercise's loads in the window and in all earlier history
LoadsIn(n) == {x.load : x \in {y \in arg[n] : week_start <= y.date /\ y.date <= week_end}}

LoadsBefore(n) == {x.load : x \in {y \in arg[n] : y.date < week_start}}

\* the window's load is above every earlier load, and there is one
AllTimeHigh(n) ==
    /\ LoadsIn(n) # {}
    /\ LoadsBefore(n) # {}
    /\ \E c \in LoadsIn(n) : \A b \in LoadsBefore(n) : c > b

Printed(label, n) ==
    \E i \in 1..Len(result.section.lines) :
        result.section.lines[i] = [label |-> label, vals |-> <<Txt(n)>>]

\* C17: an exercise whose load in the window is above its best in all prior
\* history, not only in the four-week baseline, is reported as a PR and not
\* as a regression in the same run.
C17_AllTimeHighIsPrNotRegression ==
    pc = "returned" =>
        \A n \in {"Squat", "Row"} :
            AllTimeHigh(n) =>
                /\ \E i \in 1..Len(result.sa.pr_exercises) : result.sa.pr_exercises[i] = n
                /\ \A i \in 1..Len(result.sa.regression_exercises) :
                      result.sa.regression_exercises[i] # n
                /\ result.section.ok
                /\ Printed("pr", n)
                /\ ~Printed("regression", n)

\* a squat above a best that lies before the baseline, with nothing logged
\* inside the baseline, while the row regresses
C17_Witness ==
    /\ pc = "returned"
    /\ AllTimeHigh("Squat")
    /\ \A y \in arg["Squat"] : y.date < week_start => y.date < week_start - 28
    /\ Printed("pr", "Squat")
    /\ Printed("regression", "Row")

-----------------------------------------------------------------------------
(* The Body Composition analyzer's direction and flags, as the             *)
(* specification describes them.  Weights are in hundredths of a pound.    *)

\* |net change| below this is a flat trend: 0.1 lb
TrendEpsilon == 10

TrendDirection(net) ==
    IF net >= TrendEpsilon THEN "up"
    ELSE IF -net >= TrendEpsilon THEN "down"
    ELSE "flat"

\* the flag raised by a rising trend only
RisingDespiteDeficit_UpOnly(direction, avg_daily_deficit) ==
    direction = "up" /\ Positive(avg_daily_deficit)

\* the trend is up or flat while intake is below expenditure
RisingDespiteDeficit(direction, avg_daily_deficit) ==
    direction \in {"up", "flat"} /\ Positive(avg_daily_deficit)

BodyCompAnalyze(trend_start, trend_end, avg_daily_deficit) ==
    LET net == trend_end - trend_start
        direction == TrendDirection(net)
    IN  [trend_weight_start |-> Num(trend_start),
         trend_weight_end |-> Num(trend_end),
         trend_net_change_lbs |-> Num(net),
         trend_direction |-> direction,
         trend_stalled |-> direction = "flat",
         weight_rising_despite_deficit |-> RisingDespiteDeficit(direction, avg_daily_deficit),
         algorithm_recalibrating |-> RisingDespiteDeficit(direction, avg_daily_deficit)]

\* the report's note on recalibration: printed when either flag is set
RecalibrationNote(ba) ==
    IF ba.weight_rising_despite_deficit \/ ba.algorithm_recalibrating
    THEN <<Txt("recalibrating")>> ELSE <<>>

\* body_comp.analyze with the deficit run_full passes it, then the note
ApplyBodyComp ==
    /\ pc = "body_comp"
    /\ LET ba == BodyCompAnalyze(arg.trend_start, arg.trend_end, arg.avg_daily_deficit) IN
        result' = [ba |-> ba, note |-> RecalibrationNote(ba)]
    /\ pc' = "returned"
    /\ UNCHANGED <<week, today, week_start, week_end, error, wb, sheets, mf_loaded,
                   garmin, garmin_loaded, warnings, invoked, targets, cols, trace, arg, app>>

NextBodyComp == ApplyBodyComp

TrendMoves == {-30, -15, -10, -9, -5, 0, 5, 9, 10, 15, 30}

InitBodyComp ==
    InitFunction("body_comp",
                 {[trend_start |-> w, trend_end |-> w + m, avg_daily_deficit |-> d] :
                    w \in {17000, 17250}, m \in TrendMoves,
                    d \in {None, Num(-350), Num(0), Num(1), Num(350)}})

SpecBodyComp == InitBodyComp /\ [][NextBodyComp]_vars

-----------------------------------------------------------------------------
(* Properties of the recalibration flags (SpecBodyComp)                    *)

NetChange == arg.trend_end - arg.trend_start

InDeficit == arg.avg_daily_deficit.t = "num" /\ arg.avg_daily_deficit.n > 0

\* C18: weight_rising_despite_deficit is true exactly when the trend is up or
\* flat (not down by 0.1 lb or more) and the average daily deficit is
\* positive; algorithm_recalibrating has the same value; a trend up 0.3 lb
\* with a deficit of +350 kcal gives direction "up" and the flag true.
C18_RisingDespiteDeficitFlag ==
    pc = "returned" =>
        /\ result.ba.trend_direction \in {"up", "flat"} <=> NetChange > -10
        /\ result.ba.weight_rising_despite_deficit
              <=> (result.ba.trend_direction \in {"up", "flat"} /\ InDeficit)
        /\ result.ba.algorithm_recalibrating = result.ba.weight_rising_despite_deficit
        /\ (NetChange = 30 /\ arg.avg_daily_deficit = Num(350)) =>
              /\ result.ba.trend_direction = "up"
              /\ result.ba.weight_rising_despite_deficit
        /\ (result.note # <<>>) <=> result.ba.weight_rising_despite_deficit

\* the scenario: up 0.3 lb with a deficit of 350 kcal
C18_Witness ==
    /\ pc = "returned"
    /\ NetChange = 30
    /\ arg.avg_daily_deficit = Num(350)
    /\ result.ba.weight_rising_despite_deficit
    /\ result.note # <<>>

-----------------------------------------------------------------------------
(* The signal detector, as the specification describes it: a fixed,        *)
(* ordered set of rules over the analyzers' flags, every matching rule     *)
(* appending one Signal.  A rule is named by the flag it reads.            *)

SignalRules ==
    <<"overreach_flag", "recovery_debt_flag", "aerobic_adaptation_signal",
      "fatigue_signal", "low_protein_flag", "low_carb_underfuel_flag",
      "weight_rising_despite_deficit">>

RuleCategory(rule) ==
    CASE rule \in {"overreach_flag", "recovery_debt_flag",
                   "aerobic_adaptation_signal", "fatigue_signal"} -> "running"
      [] rule \in {"low_protein_flag", "low_carb_underfuel_flag"} -> "nutrition"
      [] OTHER -> "body_comp"

Signal(rule) == [category |-> RuleCategory(rule), icon |-> "icon", message |-> rule]

RECURSIVE DetectFrom(_, _)
\* the rules from the k-th on, each appending its signal when it matches
DetectFrom(k, flags) ==
    IF k > Len(SignalRules) THEN <<>>
    ELSE (IF SignalRules[k] \in flags THEN <<Signal(SignalRules[k])>> ELSE <<>>)
         \o DetectFrom(k + 1, flags)

\* signals.detect over the flags the four analyses carry
Detect(flags) == DetectFrom(1, flags)

\* the section showing the first signal only
SignalsSection_FirstOnly(signals) ==
    IF signals # <<>>
    THEN <<Txt("Trend Signals"),
           [icon |-> signals[1].icon, category |-> signals[1].category,
            message |-> signals[1].message],
           Txt("")>>
    ELSE <<>>

\* build: the signals section, one line per signal in list order
SignalsSection(signals) ==
    IF signals # <<>>
    THEN <<Txt("Trend Signals")>>
         \o [i \in 1..Len(signals) |->
               [icon |-> signals[i].icon, category |-> signals[i].category,
                message |-> signals[i].message]]
         \o <<Txt("")>>
    ELSE <<>>

\* signals.detect, then the section formatter.build renders from its list
ApplySignals ==
    /\ pc = "signals"
    /\ LET detected_signals == Detect(arg) IN
        result' = [signals |-> detected_signals,
                   section |-> SignalsSection(detected_signals)]
    /\ pc' = "returned"
    /\ UNCHANGED <<week, today, week_start, week_end, error, wb, sheets, mf_loaded,
                   garmin, garmin_loaded, warnings, invoked, targets, cols, trace, arg, app>>

NextSignals == ApplySignals

InitSignals ==
    InitFunction("signals", SUBSET {SignalRules[k] : k \in 1..Len(SignalRules)})

SpecSignals == InitSignals /\ [][NextSignals]_vars

-----------------------------------------------------------------------------
(* Properties of the signal list and its rendering (SpecSignals)           *)

RuleIndex(rule) == CHOOSE k \in 1..Len(SignalRules) : SignalRules[k] = rule

\* C19: the signal list holds one signal for every matching rule, in rule
\* order, none suppressed, and is empty when nothing matches; the report
\* renders every signal of the list in the same order and no signals
\* section when the list is empty.
C19_AllMatchingRulesFireInOrder ==
    pc = "returned" =>
        LET sigs == result.signals
            sec == result.section
        IN  /\ {sigs[i].message : i \in 1..Len(sigs)} = arg
            /\ Len(sigs) = Cardinality(arg)
            /\ \A i, j \in 1..Len(sigs) :
                  i < j => RuleIndex(sigs[i].message) < RuleIndex(sigs[j].message)
            /\ (arg = {}) => sigs = <<>>
            /\ (sigs = <<>>) => sec = <<>>
            /\ (sigs # <<>>) =>
                  /\ Len(sec) = Len(sigs) + 2
                  /\ \A i \in 1..Len(sigs) :
                        /\ sec[i + 1].message = sigs[i].message
                        /\ sec[i + 1].category = sigs[i].category

\* two rules of different analyzers match together, both are rendered
C19_Witness ==
    /\ pc = "returned"
    /\ {"fatigue_signal", "overreach_flag", "weight_rising_despite_deficit"} \subseteq arg
    /\ Len(result.signals) >= 3
    /\ Len(result.section) = Len(result.signals) + 2

-----------------------------------------------------------------------------
(* Null analyzer fields in the report and in the digest                    *)

\* _na, _na0: "N/A" for None and for NaN, else the formatted number
Na(val) == IF val.t \in {"None", "nan"} THEN Txt("N/A") ELSE val

\* _pct_str: "N/A" when either value is None or the target is 0
PctStr(val, target) ==
    IF val.t = "None" \/ target.t = "None" THEN Txt("N/A")
    ELSE IF target.n = 0 THEN Txt("N/A")
    ELSE Num((val.n * 100) \div target.n)

\* "+x" for a positive change, else _na of it
SignedOrNa(change) == IF Truthy(change) /\ Positive(change) THEN change ELSE Na(change)

\* build: the header line
ReportHeader(running, nutrition, body_comp) ==
    <<Line("header",
           <<Na(body_comp.trend_weight_start), Na(body_comp.trend_weight_end),
             SignedOrNa(body_comp.trend_net_change_lbs),
             running.current.total_miles,
             Na(nutrition.current.avg_calories), Na(nutrition.current.avg_protein_g)>>)>>

\* build: the nutrition section down to the deficit lines
NutritionSection(nutrition) ==
    LET cur_n == nutrition.current
        cal_tgt == cur_n.target_calories
        prot_tgt == cur_n.target_protein_g
    IN  <<Line("target", <<Na(cal_tgt), Na(prot_tgt)>>)>>
        \o (IF nutrition.incomplete_week_flag
            THEN <<Line("incomplete", <<Num(cur_n.logged_days)>>)>> ELSE <<>>)
        \o <<Line("table",
                  <<Na(cur_n.avg_calories), Na(cal_tgt), PctStr(cur_n.avg_calories, cal_tgt),
                    Na(cur_n.avg_protein_g), Na(prot_tgt),
                    PctStr(cur_n.avg_protein_g, prot_tgt)>>)>>
        \o (IF nutrition.protein_hit_rate.t # "None"
            THEN <<Line("hit_rate", <<Num(cur_n.logged_days), Na(prot_tgt),
                                      Times(nutrition.protein_hit_rate, 100)>>)>>
            ELSE <<>>)
        \o (IF Truthy(cur_n.avg_calories) /\ Truthy(cur_n.avg_expenditure)
            THEN <<Line("deficit", <<Na(cur_n.avg_calories), Na(cur_n.avg_expenditure),
                                     Num(cur_n.avg_expenditure.n - cur_n.avg_calories.n)>>)>>
            ELSE <<Line("deficit", <<Txt("Insufficient data")>>)>>)

\* build: the body composition section
BodyCompSection(body_comp) ==
    <<Line("trend", <<Na(body_comp.trend_weight_start), Na(body_comp.trend_weight_end),
                      Txt(body_comp.trend_direction)>>)>>
    \o (IF Truthy(body_comp.pounds_to_goal)
        THEN <<Line("to_goal", <<body_comp.pounds_to_goal>>)>> ELSE <<>>)
    \o (IF Truthy(body_comp.weekly_rate_lbs) /\ Positive(body_comp.weekly_rate_lbs)
        THEN <<Line("rate", <<body_comp.weekly_rate_lbs>>)>> ELSE <<>>)
    \o [i \in 1..Len(RecalibrationNote(body_comp)) |->
          Line("note", <<RecalibrationNote(body_comp)[i]>>)]

\* formatter.build over the analyses
Build(running, nutrition, body_comp) ==
    LET running_section == RunningSection(running) IN
    IF ~running_section.ok THEN running_section
    ELSE Join(ReportHeader(running, nutrition, body_comp)
              \o NutritionSection(nutrition)
              \o BodyCompSection(body_comp))

NutritionFlags(na) ==
    (IF na.low_protein_flag THEN <<Txt("low_protein")>> ELSE <<>>)
    \o (IF na.low_carb_underfuel_flag THEN <<Txt("underfuel")>> ELSE <<>>)
    \o (IF na.high_calorie_variance_flag THEN <<Txt("variance")>> ELSE <<>>)
    \o (IF na.incomplete_week_flag THEN <<Txt("incomplete")>> ELSE <<>>)

\* _nutrition_ctx: every line is an f-string formatting the fields directly
NutritionCtx(na) ==
    LET cur == na.current
    IN  Join(<<Line("calories", <<cur.avg_calories, cur.target_calories,
                                  Times(na.calories_pct_target, 100)>>),
               Line("protein", <<cur.avg_protein_g, cur.target_protein_g,
                                 Times(na.protein_hit_rate, 100)>>),
               Line("carbs_fat", <<cur.avg_carbs_g, cur.avg_fat_g>>),
               Line("deficit", <<na.avg_daily_deficit>>),
               Line("logged_days", <<Num(cur.logged_days)>>)>>
             \o (IF NutritionFlags(na) # <<>>
                 THEN <<Line("flags", NutritionFlags(na))>> ELSE <<>>))

\* _body_comp_ctx: the same, over the body composition fields
BodyCompCtx(ba) ==
    Join(<<Line("trend", <<ba.trend_weight_start, ba.trend_weight_end,
                           ba.trend_net_change_lbs>>),
           Line("direction", <<Txt(ba.trend_direction), ba.weekly_rate_lbs>>),
           Line("to_goal", <<ba.pounds_to_goal, ba.weeks_to_goal>>)>>
         \o (IF ba.trend_stalled THEN <<Line("stalled", <<>>)>> ELSE <<>>)
         \o (IF ba.weight_rising_despite_deficit
             THEN <<Line("rising", <<>>)>> ELSE <<>>))

\* build_analysis_prompt: one f-string holding the three digests
BuildAnalysisPrompt(ra, na, ba) ==
    LET parts == <<RunningCtx(ra), NutritionCtx(na), BodyCompCtx(ba)>>
    IN  IF \E i \in 1..3 : ~parts[i].ok THEN Raise("TypeError")
        ELSE [ok |-> TRUE, lines |-> parts[1].lines \o parts[2].lines \o parts[3].lines]

\* a change of two nullable numbers
Diff(a, b) == IF a.t = "num" /\ b.t = "num" THEN Num(a.n - b.n) ELSE None

\* the nutrition analysis of a window whose averages are the given cells
NutritionOf(f) ==
    [current |-> [avg_calories |-> f.avg_calories,
                  target_calories |-> f.target_calories,
                  avg_protein_g |-> f.avg_protein_g,
                  target_protein_g |-> Num(150),
                  avg_carbs_g |-> Num(250), avg_fat_g |-> Num(60),
                  avg_expenditure |-> Num(2400),
                  logged_days |-> IF f.avg_calories.t = "None" THEN 0 ELSE 6],
     calories_pct_target |->
        IF f.avg_calories.t = "num" /\ f.target_calories.t = "num"
        THEN Num((f.avg_calories.n * 100) \div f.target_calories.n) ELSE None,
     protein_hit_rate |-> IF f.avg_protein_g.t = "None" THEN None ELSE Num(1),
     avg_daily_deficit |-> f.avg_daily_deficit,
     low_protein_flag |-> FALSE, low_carb_underfuel_flag |-> FALSE,
     high_calorie_variance_flag |-> FALSE,
     incomplete_week_flag |-> f.avg_calories.t = "None"]

\* the body composition analysis of a window with the given trend weights
BodyCompOf(f) ==
    LET net == Diff(f.trend_weight_end, f.trend_weight_start)
        direction == IF net.t = "num" THEN TrendDirection(net.n) ELSE "flat"
    IN  [trend_weight_start |-> f.trend_weight_start,
         trend_weight_end |-> f.trend_weight_end,
         trend_net_change_lbs |-> net,
         trend_direction |-> direction,
         weekly_rate_lbs |-> f.weekly_rate_lbs,
         pounds_to_goal |-> Diff(f.trend_weight_end, Num(16000)),
         weeks_to_goal |-> f.weeks_to_goal,
         trend_stalled |-> net.t = "num" /\ direction = "flat",
         weight_rising_despite_deficit |->
            net.t = "num" /\ RisingDespiteDeficit(direction, f.avg_daily_deficit),
         algorithm_recalibrating |->
            net.t = "num" /\ RisingDespiteDeficit(direction, f.avg_daily_deficit)]

\* run_full's report and run_analysis's prompt over the same analyses
ApplyDigest ==
    /\ pc = "digest"
    /\ LET ra == RunningAnalyze(arg.runs, arg.runs)
           na == NutritionOf(arg)
           ba == BodyCompOf(arg)
       IN  result' = [report |-> Build(ra, na, ba),
                      nutrition_ctx |-> NutritionCtx(na),
                      body_comp_ctx |-> BodyCompCtx(ba),
                      prompt |-> BuildAnalysisPrompt(ra, na, ba)]
    /\ pc' = "returned"
    /\ UNCHANGED <<week, today, week_start, week_end, error, wb, sheets, mf_loaded,
                   garmin, garmin_loaded, warnings, invoked, targets, cols, trace, arg, app>>

NextDigest == ApplyDigest

Nullable(n) == {None, Num(n)}

InitDigest ==
    InitFunction("digest",
                 [runs : {<<>>, <<Run(FALSE, 50, 1200, 90, 1500, 100)>>},
                  avg_calories : Nullable(2100),
                  target_calories : Nullable(2000),
                  avg_protein_g : Nullable(140),
                  avg_daily_deficit : Nullable(350),
                  trend_weight_start : Nullable(17000),
                  trend_weight_end : Nullable(16950),
                  weekly_rate_lbs : Nullable(50),
                  weeks_to_goal : Nullable(19)])

SpecDigest == InitDigest /\ [][NextDigest]_vars

-----------------------------------------------------------------------------
(* Properties of null fields in the consumers (SpecDigest)                 *)

NullFields ==
    {f \in {"avg_calories", "target_calories", "avg_protein_g", "avg_daily_deficit",
            "trend_weight_start", "trend_weight_end", "weekly_rate_lbs",
            "weeks_to_goal"} : arg[f] = None}

\* the report alone: it completes, with "N/A" for the null averages
ReportRendersPlaceholders ==
    pc = "returned" =>
        /\ result.report.ok
        /\ \A f \in {"avg_calories", "target_calories", "avg_protein_g"} \cap NullFields :
              \E i \in 1..Len(result.report.lines) :
                  \E j \in 1..Len(result.report.lines[i].vals) :
                      result.report.lines[i].vals[j] = Txt("N/A")

\* C20: whichever nullable analyzer fields are null, the report formatter and
\* the digest builders complete without raising and render a placeholder for
\* each null field.
C20_NullFieldsRenderPlaceholders ==
    pc = "returned" =>
        /\ ReportRendersPlaceholders
        /\ result.nutrition_ctx.ok
        /\ result.body_comp_ctx.ok
        /\ result.prompt.ok

-----------------------------------------------------------------------------
(* Session persistence (persistence.py)                                    *)

\* the run-time variables no persistence, interview or chat action touches
run == <<week, week_start, week_end, error, wb, sheets, mf_loaded, garmin,
         garmin_loaded, warnings, invoked, targets, cols>>

\* the text of session.json: the dictionary's two week fields, None for a
\* key the dictionary lacks
SessionJson(week_start_iso, week_end_iso) ==
    [t |-> "json", week_start |-> week_start_iso, week_end |-> week_end_iso]

\* a text json.loads raises on
CorruptText == [t |-> "corrupt"]

\* an uploaded file; parses: the loaders read it without raising
File(name, parses) == [name |-> name, parses |-> parses]

\* a RunResult: the window and the data it was computed from
RunResult(ws, we, mf, garmin_file) ==
    [week_start |-> ws, week_end |-> we, mf_data |-> mf, garmin_data |-> garmin_file]

\* the bytes of result.pkl; readable: pickle.loads returns the value
Pickled(value, readable) == [value |-> value, readable |-> readable]

\* Timestamp.strftime("%Y-%m-%d"): the year, month and day of the ordinal
Strftime(o) ==
    LET y == CHOOSE x \in 2023..2025 : DaysBeforeYear(x) < o /\ o <= DaysBeforeYear(x + 1)
        n == o - DaysBeforeYear(y)
        m == CHOOSE x \in 1..12 :
                 DaysBeforeMonth(y, x) < n /\ n <= DaysBeforeMonth(y, x) + DaysInMonth(y, x)
    IN  IsoStr(y, m, n - DaysBeforeMonth(y, m))

\* _expiry_date: fromisoformat raises TypeError on a value that is no string
ExpiryDate(week_end_iso) ==
    IF week_end_iso.t # "str" THEN Raise("TypeError")
    ELSE LET p == FromIsoFormat(week_end_iso)
         IN  IF p.ok THEN [ok |-> TRUE, ord |-> p.ord + 6] ELSE p

\* expired only from the day after the expiry Saturday
IsExpired_AfterSaturday(session, now) ==
    IF session.week_end.t = "None" THEN TRUE
    ELSE LET e == ExpiryDate(session.week_end)
         IN  IF e.ok THEN now > e.ord ELSE TRUE

\* is_expired: KeyError, ValueError and TypeError all mean expired
IsExpired(session, now) ==
    IF session.week_end.t = "None" THEN TRUE
    ELSE LET e == ExpiryDate(session.week_end)
         IN  IF e.ok THEN now >= e.ord ELSE TRUE

LoadSession(st, now) ==
    IF st.session = None THEN None
    ELSE IF st.session.t = "corrupt" THEN None
    ELSE IF IsExpired(st.session, now) THEN None
    ELSE st.session

LoadResult(st) ==
    IF st.result = None THEN None
    ELSE IF ~st.result.readable THEN None
    ELSE st.result.value

\* load_rec_dict, load_messages: the empty value when absent or unreadable
LoadJson(text, empty) ==
    IF text = None THEN empty
    ELSE IF text.t = "corrupt" THEN empty
    ELSE text.value

\* run_full as persistence sees it: the window of the week argument, the
\* data of the two files, or the exception that leaves it
RunFull(mf, garmin_file, week_str, now) ==
    LET b == ParseWeekArg(week_str, now)
    IN  IF ~b.ok THEN b
        ELSE IF ~mf.parses \/ ~garmin_file.parses THEN Raise("LoadError")
        ELSE [ok |-> TRUE, value |-> RunResult(b.start, b.end, mf, garmin_file)]

\* _rerun_from_uploads: None without both uploads or when run_full raises
RerunFromUploads(st, week_start_iso, now) ==
    IF st.mf_upload = None \/ st.garmin_upload = None THEN None
    ELSE LET r == RunFull(st.mf_upload, st.garmin_upload, week_start_iso, now)
         IN  IF r.ok THEN r.value ELSE None

\* session.get("week_start", "")
SessionWeekStart(session) ==
    IF session.week_start.t = "None" THEN EmptyStr ELSE session.week_start

\* load_all that never re-runs
LoadAllOf_PickleOnly(st, now) ==
    LET session == LoadSession(st, now)
        pickled == LoadResult(st)
    IN  IF session = None \/ pickled = None THEN None
        ELSE [session |-> session, result |-> pickled,
              rec |-> LoadJson(st.rec, "{}"), messages |-> LoadJson(st.messages, "[]")]

LoadAllOf(st, now) ==
    LET session == LoadSession(st, now)
    IN  IF session = None THEN None
        ELSE LET pickled == LoadResult(st)
                 run_result == IF pickled = None
                               THEN RerunFromUploads(st, SessionWeekStart(session), now)
                               ELSE pickled
             IN  IF run_result = None THEN None
                 ELSE [session |-> session, result |-> run_result,
                       rec |-> LoadJson(st.rec, "{}"),
                       messages |-> LoadJson(st.messages, "[]")]

RunLoadSession ==
    /\ pc # "pickling"
    /\ loaded' = LoadSession(store, today)
    /\ pc' = "load_session"
    /\ UNCHANGED <<today, run, trace, fn, store, rec, shown, requests,
                   agent, messages>>

RunLoadAll ==
    /\ pc # "pickling"
    /\ loaded' = LoadAllOf(store, today)
    /\ pc' = "load_all"
    /\ UNCHANGED <<today, run, trace, fn, store, rec, shown, requests,
                   agent, messages>>

MaxClockDays == 13

\* midnight passes
Tick ==
    /\ pc # "pickling"
    /\ today < Jan(15) + MaxClockDays
    /\ today' = today + 1
    /\ pc' = "idle"
    /\ loaded' = NoLoad
    /\ UNCHANGED <<run, trace, fn, store, rec, shown, requests, agent, messages>>

NextLoad == RunLoadSession \/ RunLoadAll \/ Tick

\* the pipeline at rest, the clock at the given day
InitService(pc0, now) ==
    /\ pc = pc0
    /\ today = now
    /\ week = None
    /\ week_start = NoDate
    /\ week_end = NoDate
    /\ error = "none"
    /\ wb = Book(Absent, Absent)
    /\ sheets = [n \in SheetNames |-> Unloaded]
    /\ mf_loaded = FALSE
    /\ garmin = <<>>
    /\ garmin_loaded = FALSE
    /\ warnings = <<>>
    /\ invoked = <<>>
    /\ targets = NoTargets
    /\ cols = NoCols
    /\ calls = <<>>
    /\ report = NoReport
    /\ first = NoRun
    /\ arg = None
    /\ result = NoResult

GoodMf == File("macrofactor.xlsx", TRUE)

GoodGarmin == File("garmin.csv", TRUE)

\* session.json as save_session_meta writes it, and as it may be found
SessionPool ==
    {None, CorruptText,
     SessionJson(IsoStr(2024, 1, 15), IsoStr(2024, 1, 21)),
     SessionJson(IsoStr(2024, 1, 22), IsoStr(2024, 1, 28)),
     SessionJson(None, IsoStr(2024, 1, 21)),
     SessionJson(OtherStr, IsoStr(2024, 1, 21)),
     SessionJson(IsoStr(2024, 1, 15), None),
     SessionJson(IsoStr(2024, 1, 15), OtherStr),
     SessionJson(IsoStr(2024, 1, 15), MdyStr(1, 21, 2024)),
     SessionJson(IsoStr(2024, 1, 15), Num(20240121))}

\* no result.pkl, one of the first week, one that no longer unpickles
PicklePool ==
    {None,
     Pickled(RunResult(Jan(15), Jan(21), File("earlier.xlsx", TRUE), GoodGarmin), TRUE),
     Pickled(RunResult(Jan(15), Jan(21), File("earlier.xlsx", TRUE), GoodGarmin), FALSE)}

UploadPool ==
    {<<None, None>>, <<GoodMf, None>>, <<GoodMf, GoodGarmin>>,
     <<File("macrofactor.xlsx", FALSE), GoodGarmin>>}

InitLoad ==
    /\ InitService("idle", Jan(15))
    /\ \E s \in SessionPool, p \in PicklePool, u \in UploadPool :
          store = [EmptyStore EXCEPT !.session = s, !.result = p,
                                     !.mf_upload = u[1], !.garmin_upload = u[2]]
    /\ loaded = NoLoad
    /\ rec = InterviewState(0)
    /\ shown = None
    /\ requests = <<>>
    /\ agent = NoAgent
    /\ messages = <<>>

SpecLoad == InitLoad /\ [][NextLoad]_vars

-----------------------------------------------------------------------------
(* Properties of loading a saved session (SpecLoad)                        *)

\* the stored session names a week end that is a Sunday
SundaySession ==
    /\ store.session # None
    /\ store.session.t = "json"
    /\ IsoString(store.session.week_end)
    /\ ~store.session.week_end.tail /\ ~store.session.week_end.pad
    /\ Weekday(Ymd2Ord(store.session.week_end.a, store.session.week_end.b,
                       store.session.week_end.c)) = 6

WeekEndOrd ==
    Ymd2Ord(store.session.week_end.a, store.session.week_end.b, store.session.week_end.c)

\* C21: a session whose week_end is a Sunday is returned by load_session on
\* every day before week_end + 6 days and is None on that Saturday and every
\* later day; a session with a missing or malformed week_end is always
\* treated as expired.
C21_ExpiresOnFollowingSaturday ==
    pc = "load_session" =>
        /\ SundaySession =>
              /\ (today < WeekEndOrd + 6) => loaded = store.session
              /\ (today >= WeekEndOrd + 6) => loaded = None
        /\ ~SundaySession => loaded = None

\* the expiry Saturday itself: the session saved for Jan 15-21 is gone
C21_Witness ==
    /\ pc = "load_session"
    /\ SundaySession
    /\ today = WeekEndOrd + 6
    /\ Weekday(today) = 5
    /\ loaded = None

\* the day before, the session is still returned
C21_WitnessFriday ==
    /\ pc = "load_session"
    /\ SundaySession
    /\ today = WeekEndOrd + 5
    /\ loaded = store.session

\* the stored session is one load_session accepts today
ValidSession == SundaySession /\ today < WeekEndOrd + 6

PickleReadable == store.result # None /\ store.result.readable

\* run_full accepts the week the session hands it
WeekArgParses ==
    \/ store.session.week_start.t = "None"
    \/ /\ IsoString(store.session.week_start)
       /\ ~store.session.week_start.tail /\ ~store.session.week_start.pad

\* both uploads are saved and the pipeline runs over them
RerunYields ==
    /\ store.mf_upload # None /\ store.garmin_upload # None
    /\ store.mf_upload.parses /\ store.garmin_upload.parses
    /\ WeekArgParses

\* C22: load_all returns None exactly when there is no valid non-expired
\* session or when neither the pickled result nor a re-run from the saved
\* uploads yields a result; otherwise it returns the session with a result,
\* the pickled one when it is present and readable, a re-run from the
\* uploads only when the pickle is absent or corrupt.
C22_LoadAllNoneOrSessionWithResult ==
    pc = "load_all" =>
        /\ (loaded = None) <=> (~ValidSession \/ (~PickleReadable /\ ~RerunYields))
        /\ (loaded # None) =>
              /\ loaded.session = store.session
              /\ PickleReadable => loaded.result = store.result.value
              /\ ~PickleReadable =>
                    /\ loaded.result.mf_data = store.mf_upload
                    /\ loaded.result.garmin_data = store.garmin_upload

\* result.pkl is there but does not unpickle, and the uploads give the result
C22_Witness ==
    /\ pc = "load_all"
    /\ ValidSession
    /\ store.result # None /\ ~store.result.readable
    /\ loaded # None
    /\ loaded.result.mf_data = GoodMf

\* the stored week of a session load_session accepts
SessionWeek ==
    IF store.session.week_start.t = "str" /\ IsoString(store.session.week_start)
    THEN WeekBoundsForDate(Ymd2Ord(store.session.week_start.a, store.session.week_start.b,
                                   store.session.week_start.c))
    ELSE Bounds(WeekEndOrd - 6, WeekEndOrd)

-----------------------------------------------------------------------------
(* Saving and clearing (persistence.py)                                    *)

\* json.dumps of a value
JsonText(value) == [t |-> "json", value |-> value]

\* save_uploads
SaveUploadsOf(st, mf, garmin_file) ==
    [st EXCEPT !.mf_upload = mf, !.garmin_upload = garmin_file]

\* save_session_meta, save_rec, save_messages: the first half of save_all
SaveLight(st, run_result, rec_dict, msgs) ==
    [st EXCEPT !.session = SessionJson(Strftime(run_result.week_start),
                                       Strftime(run_result.week_end)),
               !.rec = JsonText(rec_dict),
               !.messages = JsonText(msgs)]

\* the pickling error leaving save_all
TrySaveResult_Propagates(st, run_result, picklable) ==
    IF picklable
    THEN [store |-> [st EXCEPT !.result = Pickled(run_result, TRUE)], error |-> "none"]
    ELSE [store |-> st, error |-> "PicklingError"]

\* try: save_result(result) except Exception: pass; pickle.dumps raises
\* before anything is written
TrySaveResult(st, run_result, picklable) ==
    IF picklable
    THEN [store |-> [st EXCEPT !.result = Pickled(run_result, TRUE)], error |-> "none"]
    ELSE [store |-> st, error |-> "none"]

\* the four entries kept, the uploads deleted
ClearAllOf_Uploads(st) ==
    [st EXCEPT !.mf_upload = None, !.garmin_upload = None]

\* clear_all: session, rec, messages and result are deleted
ClearAllOf(st) ==
    [st EXCEPT !.session = None, !.rec = None, !.messages = None, !.result = None]

RunSaveUploads(mf, garmin_file) ==
    /\ pc # "pickling"
    /\ store' = SaveUploadsOf(store, mf, garmin_file)
    /\ pc' = "save_uploads"
    /\ UNCHANGED <<today, run, trace, fn, loaded, rec, shown, requests,
                   agent, messages>>

\* save_all up to the pickling
SaveAllLight(run_result, picklable, rec_dict, msgs) ==
    /\ pc # "pickling"
    /\ store' = SaveLight(store, run_result, rec_dict, msgs)
    /\ arg' = [result |-> run_result, picklable |-> picklable,
               rec |-> rec_dict, messages |-> msgs]
    /\ pc' = "pickling"
    /\ UNCHANGED <<today, run, trace, result, loaded, rec, shown, requests,
                   agent, messages>>

\* save_all from the pickling on
SaveAllPickle ==
    /\ pc = "pickling"
    /\ LET r == TrySaveResult(store, arg.result, arg.picklable)
       IN  /\ store' = r.store
           /\ error' = r.error
    /\ pc' = IF error' = "none" THEN "save_all" ELSE "raised"
    /\ UNCHANGED <<today, week, week_start, week_end, wb, sheets, mf_loaded, garmin,
                   garmin_loaded, warnings, invoked, targets, cols, trace, fn,
                   loaded, rec, shown, requests, agent, messages>>

RunClearAll ==
    /\ pc # "pickling"
    /\ store' = ClearAllOf(store)
    /\ pc' = "clear_all"
    /\ UNCHANGED <<today, run, trace, fn, loaded, rec, shown, requests,
                   agent, messages>>

NextMf == File("next.xlsx", TRUE)

\* the results of run_full over the saved files for two successive weeks,
\* each with whether it pickles
SavedResults ==
    {RunResult(Jan(15), Jan(21), GoodMf, GoodGarmin),
     RunResult(Jan(22), Jan(28), NextMf, GoodGarmin)}

NextStore ==
    \/ \E mf \in {GoodMf, NextMf} : RunSaveUploads(mf, GoodGarmin)
    \/ \E r \in SavedResults, picklable \in BOOLEAN, m \in {"[]", "[hello]"} :
          SaveAllLight(r, picklable, "{phase: 2}", m)
    \/ SaveAllPickle
    \/ RunLoadAll
    \/ RunClearAll
    \/ Tick

InitStore ==
    /\ InitService("idle", Jan(15))
    /\ AppAtRest

SpecStore == InitStore /\ [][NextStore]_vars

-----------------------------------------------------------------------------
(* Properties of saving and clearing (SpecStore)                           *)

\* the three light items of the save in arg are in the store
LightItemsSaved ==
    /\ store.session = SessionJson(Strftime(arg.result.week_start),
                                   Strftime(arg.result.week_end))
    /\ store.rec = JsonText(arg.rec)
    /\ store.messages = JsonText(arg.messages)

\* C23: save_all writes the session metadata, the recommendation state and
\* the messages before it attempts to pickle the result; a failure to pickle
\* is not propagated and leaves the three saved, so a later load_all can
\* still fall back to re-running from the saved uploads.
C23_LightItemsSavedBeforePickle ==
    /\ pc = "pickling" => LightItemsSaved
    /\ pc # "raised"
    /\ (pc = "save_all" /\ ~arg.picklable) => (LightItemsSaved /\ error = "none")
    /\ (pc = "load_all" /\ arg # None /\ ~arg.picklable /\ LightItemsSaved
          /\ store.result = None /\ ValidSession
          /\ store.mf_upload # None /\ store.garmin_upload # None) =>
            /\ loaded # None
            /\ loaded.session = store.session
            /\ loaded.result.week_start = arg.result.week_start
            /\ loaded.result.mf_data = store.mf_upload

\* the pickle failed, nothing older is stored, and load_all re-ran the week
C23_Witness ==
    /\ pc = "load_all"
    /\ arg # None /\ ~arg.picklable
    /\ LightItemsSaved
    /\ store.result = None
    /\ loaded # None
    /\ loaded.result.week_start = arg.result.week_start

\* C27: after any sequence of save_all calls, pickling failures included, the
\* result load_all returns has the week_start and week_end of the session it
\* is returned with.
C27_ResultBelongsToSessionWeek ==
    (pc = "load_all" /\ loaded # None) =>
        /\ Strftime(loaded.result.week_start) = loaded.session.week_start
        /\ Strftime(loaded.result.week_end) = loaded.session.week_end

-----------------------------------------------------------------------------
(* The Smart Plan interview (app.py, recommendations.py)                   *)

\* an LLM request: the prompt sent and whether the call returned
Request(prompt, returned) == [prompt |-> prompt, returned |-> returned]

\* the prompts, by the state they are built from
AnalysisPrompt(state) == [kind |-> "analysis", inputs |-> state.inputs]

ProposalPrompt(state) ==
    [kind |-> "proposal", analysis |-> state.analysis_text, inputs |-> state.inputs]

TemplatePrompt(state) ==
    [kind |-> "template", proposal |-> state.proposal_text, inputs |-> state.inputs,
     meals |-> state.use_new_meals]

\* the text of a reply: the v-th answer the model could give to the prompt
Reply(prompt, v) == [of |-> prompt, v |-> v]

\* the phase set before the call is made
Attempt_PhaseFirst(state, field, prompt, v, next_phase) ==
    [rec |-> IF v = 0 THEN [state EXCEPT !.phase = next_phase]
             ELSE [state EXCEPT ![field] = Reply(prompt, v), !.phase = next_phase],
     shown |-> IF v = 0 THEN Txt("failed") ELSE None,
     requests |-> <<Request(prompt, v # 0)>>]

\* try: rec.<field> = run_...(rec, key); rec.phase = next  except: st.error
\* v = 0: the request raises
Attempt(state, field, prompt, v, next_phase) ==
    IF v = 0
    THEN [rec |-> state, shown |-> Txt("failed"), requests |-> <<Request(prompt, FALSE)>>]
    ELSE [rec |-> [state EXCEPT ![field] = Reply(prompt, v), !.phase = next_phase],
          shown |-> None, requests |-> <<Request(prompt, TRUE)>>]

\* a successful analysis landing on the proposal page
Phase1Submit_SkipsProposal(state, form, has_key, digest_ok, v) ==
    IF ~has_key THEN [rec |-> state, shown |-> Txt("no key"), requests |-> <<>>]
    ELSE LET filled == [state EXCEPT !.inputs = form]
         IN  IF ~digest_ok
             THEN [rec |-> filled, shown |-> Txt("failed"), requests |-> <<>>]
             ELSE Attempt(filled, "analysis_text", AnalysisPrompt(filled), v, 3)

\* phase 1, "Submit & Run Analysis": without a key only the error; else the
\* form is stored and run_analysis called, which may raise while building
\* the prompt, before any request
Phase1Submit(state, form, has_key, digest_ok, v) ==
    IF ~has_key THEN [rec |-> state, shown |-> Txt("no key"), requests |-> <<>>]
    ELSE LET filled == [state EXCEPT !.inputs = form]
         IN  IF ~digest_ok
             THEN [rec |-> filled, shown |-> Txt("failed"), requests |-> <<>>]
             ELSE Attempt(filled, "analysis_text", AnalysisPrompt(filled), v, 2)

\* an interview action leaves everything but the interview alone
InterviewStep(after) ==
    /\ pc = "interview"
    /\ rec' = after.rec
    /\ shown' = after.shown
    /\ requests' = after.requests
    /\ UNCHANGED <<pc, today, run, trace, fn, store, loaded, agent, messages>>

NoCall(state) == [rec |-> state, shown |-> None, requests |-> <<>>]

\* phase 0, "Start Performance Interview"
Start == rec.phase = 0 /\ InterviewStep(NoCall(InterviewState(1)))

Submit(form, has_key, digest_ok, v) ==
    rec.phase = 1 /\ InterviewStep(Phase1Submit(rec, form, has_key, digest_ok, v))

\* phase 2, "Generate Strategy Proposal"
GenerateProposal(v) ==
    rec.phase = 2 /\ InterviewStep(Attempt(rec, "proposal_text", ProposalPrompt(rec), v, 3))

\* phase 2, "Edit Interview"
EditInterview == rec.phase = 2 /\ InterviewStep(NoCall([rec EXCEPT !.phase = 1]))

\* phase 3: the checkbox is stored on every render
SetMeals(use_new) ==
    rec.phase = 3 /\ InterviewStep(NoCall([rec EXCEPT !.use_new_meals = use_new]))

\* phase 3, "Approve & Generate Weekly Plan"
Approve(v) ==
    rec.phase = 3 /\ InterviewStep(Attempt(rec, "week_template_md", TemplatePrompt(rec), v, 4))

\* phase 3, "Revise Analysis"
Revise == rec.phase = 3 /\ InterviewStep(NoCall([rec EXCEPT !.phase = 1]))

\* phase 3 "Reset", phase 4 "New Week"
Reset == rec.phase \in {3, 4} /\ InterviewStep(NoCall(InterviewState(0)))

MaxReplies == 2

\* the target calories the form can hold
FormPool == {1400, 1500}

NextInterview ==
    \/ Start
    \/ \E form \in FormPool, has_key, digest_ok \in BOOLEAN, v \in 0..MaxReplies :
          Submit(form, has_key, digest_ok, v)
    \/ \E v \in 0..MaxReplies : GenerateProposal(v)
    \/ EditInterview
    \/ \E b \in BOOLEAN : SetMeals(b)
    \/ \E v \in 0..MaxReplies : Approve(v)
    \/ Revise
    \/ Reset

InitInterview ==
    /\ InitService("interview", Jan(17))
    /\ AppAtRest

SpecInterview == InitInterview /\ [][NextInterview]_vars

-----------------------------------------------------------------------------
(* Properties of the interview (SpecInterview)                             *)

Failed == shown # None

C26_DisplayedTextsAreCurrent ==
    /\ rec.phase \in {3, 4} =>
          /\ rec.proposal_text # None
          /\ rec.proposal_text.of.analysis = rec.analysis_text
    /\ rec.phase = 4 =>
          /\ rec.week_template_md # None
          /\ rec.week_template_md.of.proposal = rec.proposal_text
          /\ rec.week_template_md.of.inputs = rec.inputs
          /\ rec.week_template_md.of.meals = rec.use_new_meals

\* the plan page, the plan made with new meals from the stored proposal
C26_Witness ==
    /\ rec.phase = 4
    /\ rec.use_new_meals
    /\ rec.week_template_md.of.meals
    /\ rec.week_template_md.of.proposal = rec.proposal_text
    /\ rec.proposal_text.of.analysis = rec.analysis_text

\* a revised analysis on the analysis page, the older proposal still stored
StaleProposalStored ==
    /\ rec.phase = 2
    /\ rec.proposal_text # None
    /\ rec.proposal_text.of.analysis # rec.analysis_text

-----------------------------------------------------------------------------
(* The chat agent (chat.py) and the chat panel (app.py)                    *)

Msg(role, content) == [role |-> role, content |-> content]

\* PeakFormAgent.chat: the user message is appended, then the request is
\* made with the whole history; the reply is appended only when it returns
AgentChat(ag, message, returned) ==
    LET sent == Append(ag.history, Msg("user", message))
        reply == [to |-> message]
    IN  [agent |-> [ag EXCEPT !.history =
                        IF returned THEN Append(sent, Msg("assistant", reply)) ELSE sent],
         request |-> Request([system |-> ag.system, messages |-> sent], returned),
         reply |-> IF returned THEN reply ELSE None]

\* PeakFormAgent.reset
AgentReset(ag) == [ag EXCEPT !.history = <<>>]

MaxTurns == 3

\* the panel's Send: the user line, the call, then the reply or the error
SendChat(user_input, returned) ==
    /\ pc = "chat_panel"
    /\ Len(agent.history) < 2 * MaxTurns
    /\ LET c == AgentChat(agent, user_input, returned)
       IN  /\ agent' = c.agent
           /\ requests' = <<c.request>>
           /\ messages' = messages \o
                 <<Msg("user", user_input),
                   Msg("assistant", IF returned THEN c.reply ELSE Txt("Error"))>>
           /\ shown' = IF returned THEN None ELSE Txt("Error")
    /\ UNCHANGED <<pc, today, run, trace, fn, store, loaded, rec>>

\* the panel's Clear chat
ClearChat ==
    /\ pc = "chat_panel"
    /\ messages # <<>>
    /\ messages' = <<>>
    /\ agent' = AgentReset(agent)
    /\ requests' = <<>>
    /\ shown' = None
    /\ UNCHANGED <<pc, today, run, trace, fn, store, loaded, rec>>

NextChat ==
    \/ \E q \in {"q1", "q2"}, returned \in BOOLEAN : SendChat(q, returned)
    \/ ClearChat

InitChat ==
    /\ InitService("chat_panel", Jan(17))
    /\ store = EmptyStore
    /\ loaded = NoLoad
    /\ rec = InterviewState(0)
    /\ shown = None
    /\ requests = <<>>
    /\ agent = [system |-> Txt("report and data of Jan 15-21"), history |-> <<>>]
    /\ messages = <<>>

SpecChat == InitChat /\ [][NextChat]_vars

-----------------------------------------------------------------------------
(* Properties of the conversation history (SpecChat)                       *)

\* user, assistant, user, ... starting with a user message
Alternates(h) ==
    \A i \in 1..Len(h) : h[i].role = (IF i % 2 = 1 THEN "user" ELSE "assistant")

\* C29: after any sequence of chat and reset calls, raising ones included,
\* the history sent to the model alternates user and assistant messages
\* starting with a user message, every user message of a completed call is
\* followed by its reply, and reset empties the history and leaves the
\* system prompt unchanged.
C29_HistoryAlternates ==
    /\ requests # <<>> => Alternates(requests[1].prompt.messages)
    /\ \A i \in 1..Len(agent.history) :
          (agent.history[i].role = "assistant") =>
              (i > 1 /\ agent.history[i - 1] = Msg("user", agent.history[i].content.to))
    /\ agent.system = Txt("report and data of Jan 15-21")
    /\ messages = <<>> => agent.history = <<>>

-----------------------------------------------------------------------------
(* Properties of the returned targets (SpecTargets)                        *)

====
